---- MODULE Spec2Model ----
(***************************************************************************)
(* DeepX: subdomain collection (passive collectors, FOFA API client,       *)
(* dictionary brute force), comparison of the sources and the `all` run.   *)
(*                                                                         *)
(* Text is modelled as sequences of one-character strings, so that         *)
(* lower(), strip(), endswith() and the substring test `x in y` are        *)
(* computed as Python computes them.  A file is modelled by the set of its *)
(* lines (every reader of the program builds a set from the lines).        *)
(***************************************************************************)
EXTENDS Integers, Sequences, FiniteSets, TLC

VARIABLES
    \* ---- file system and Config (config/config.py) ----
    fs,             \* path -> NoFile or the set of lines of the file
    clock,          \* wall clock, in seconds (datetime.now() at 1 s resolution)
    cfg,            \* Config.*_OUTPUT_FILE paths and the run-time switches
    cacheSnap,      \* newest cache snapshot of the target domain, or NoSnap
    \* ---- ComparisonHandler ----
    cmpFiles,       \* the five paths held by the ComparisonHandler
    cmpResult,      \* what compare_domains returned, or NoResult
    \* ---- CLI.execute_all ----
    allPc,          \* position in execute_all
    allIn,          \* what the sources return in this run: P, F, B
    allFiles,       \* deep_file, fofa_file, ... recorded at the start
    allObj,         \* output paths held by the objects execute_all builds
    allRes,         \* deep_results of the run (from_cache: collect() took the
                    \* cache branch)
    \* ---- SubdomainCollector.collect and the passive collectors ----
    colPc,          \* position in SubdomainCollector.collect
    colTask,        \* collector -> its collect() task: pending, returned, raised
    colOut,         \* what SubdomainCollector.collect returned
    \* ---- FofaCollector ----
    fofaPc,         \* position in FofaCollector.collect
    fofaCfg,        \* api_key, max_pages, retry_count, retry_delay of the collector
    fofaCooldown,   \* the last response: whether 429, and the seconds _fetch_page slept
    fofaSrv,        \* the remote API: full pages, last page, reported size, items
    fofaPage,       \* page of the current _fetch_page_with_retry call
    fofaAttempt,    \* attempt of the current _fetch_page_with_retry call
    fofaLog,        \* the HTTP requests issued so far, in order
    fofaTotalPages, \* total_pages of collect
    fofaDomains,    \* domains of collect
    fofaRateLimit,  \* rate_limit_count
    fofaOut,        \* what FofaCollector.collect returned
    \* ---- SmartBruteForcer ----
    bf,             \* the fields of the SmartBruteForcer
    \* ---- the outcomes of the lookups of a SmartBruteForcer ----
    streak,         \* lookups that succeeded since the last failed lookup
    \* ---- a brute-force run (SmartBruteForcer.brute_force, DictBuilder) ----
    runPc,          \* position in the run
    runCfg,         \* which implementation runs, its concurrency, the Config it sees
    runDict,        \* the dictionary file
    runResolver,    \* SmartBruteForcer.resolver is set
    runTask,        \* word -> the task that checks it
    runTimes,       \* SmartBruteForcer._request_times
    runIssued,      \* the DNS queries issued so far, in order
    runNow,         \* time.time(), in ticks
    runOut,         \* what the run returned
    \* ---- CacheManager and its directory (cacher/manager.py) ----
    cacheDir,       \* second in the file name -> the snapshot file of that name
    cacheNow,       \* time.time(), in seconds
    cacheCfg,       \* Config.DISABLE_CACHE
    cacheRes,       \* what the has_valid_cache or get_cached_domains just called returned
    cacheLast,      \* what the saves so far were given (history)
    cacheDamages,   \* snapshot files damaged so far
    \* ---- DictBuilder and the dictionary file (cacher/dict_builder.py) ----
    dictPc,         \* "new" before DictBuilder.__init__, "ready" after
    dictDisk,       \* the dictionary file, Config.DICT_FILE
    dictWords,      \* self.dict_words
    \* ---- AliveChecker (utils/alivecheck.py) ----
    alivePc,        \* position in check_and_save
    aliveIn,        \* the domains given to check_and_save
    aliveResp,      \* domain -> protocol -> what a request met
    aliveReq,       \* domain -> the protocols requested, in order
    aliveResults,   \* the AliveResults gathered
    aliveCounts,    \* total_count, alive_count, dead_count
    aliveOut,       \* what check_and_save returned
    aliveCalls,     \* calls of check_and_save so far
    \* ---- result files as text (handlers/file.py, handlers/comparison.py) ----
    txtDisk,        \* path -> the file: exists, readable, content
    txtCall,        \* the last call and what it returned
    \* ---- repeated `all` runs over one cache (core/cli.py, core/core.py) ----
    seqNow,         \* time.time()
    seqSnap,        \* the newest snapshot of the domain
    seqMade,        \* when the deep set of the snapshot was collected live, and
                    \* whether the run that wrote the snapshot collected in full
    seqRun,         \* the last run: switches, cache before, sets, sources queried
    seqCount,       \* runs so far
    \* ---- FofaCollector._fetch_page_with_retry, the waits (collectors/fofa.py) ----
    boPc,           \* "idle", "running", "returned", "given_up"
    boCfg,          \* retry_delay, backoff_factor, page_interval of the collector
    boPage,         \* the page asked for
    boAttempt,      \* the attempt of the loop
    boWaits,        \* wait_time of the retries so far, before jitter
    \* ---- the two existence checks side by side (core/bruteforcer.py, cacher/dict_builder.py) ----
    exPc,           \* "idle", "checking"
    exDns,          \* candidate -> the outcome of its A lookup and of its CNAME lookup
    exResolver,     \* whether aiodns.DNSResolver can be created
    exSmart,        \* candidate -> what SmartBruteForcer.check_subdomain returned
    exDict,         \* candidate -> what DictBuilder._check_domain_exists returned
    \* ---- FofaCollector.collect, the requests in flight (collectors/fofa.py) ----
    pgPc,           \* "idle", "total_pages", "loop", "done"
    pgSrv,          \* the API: the pages it holds and the size it reports
    pgMaxPages,     \* self.max_pages
    pgTotalPages,   \* total_pages of collect
    pgPage,         \* the page of the next request
    pgInFlight,     \* the requests sent and not yet answered
    pgIssued,       \* the requests in the order they were sent
    pgMerged,       \* the pages whose page_domains were merged into domains
    pgDomains,      \* domains of collect
    \* ---- DomainComparator.check_alive (core/core.py, handlers/alive.py) ----
    caPc,           \* "idle", "hidden", "hidden_checking", "normal", "normal_checking", "done"
    caResults,      \* compare_results, as compare_domains returned it
    caHidden,       \* hidden_domains of check_alive
    caNormal,       \* normal_domains of check_alive
    caProbes,       \* domain -> the probes started for it
    caCompleted,    \* the (set, domain) probes that have completed
    \* ---- AliveChecker.check_domains_alive, the batches (utils/alivecheck.py) ----
    cbPc,           \* "idle", "loop", "gather", "done"
    cbBatchSize,    \* batch_size, as the caller passed it
    cbLeft,         \* the domains of domains_list not yet in a batch
    cbInFlight,     \* the probes of the current batch that have not completed
    cbBatches,      \* the batches started
    \* ---- the sweep of a cache hit against the save of the run (cacher/manager.py) ----
    rcDir,          \* the cache directory: name -> snapshot file
    rcNow,          \* time.time() of the run
    rcSweep,        \* the thread of clean_expired_cache: where it is, the files listed, the file read
    rcSave          \* save_domains_to_cache: where it is, the path it writes

fsVars  == <<fs, clock, cfg, cacheSnap>>
cmpVars == <<cmpFiles, cmpResult>>
allVars == <<allPc, allIn, allFiles, allObj, allRes>>
colVars == <<colPc, colTask, colOut>>
fofaVars == <<fofaPc, fofaCfg, fofaCooldown, fofaSrv, fofaPage, fofaAttempt, fofaLog,
              fofaTotalPages, fofaDomains, fofaRateLimit, fofaOut>>
bfVars  == <<bf>>
histVars == <<streak>>
runVars == <<runPc, runCfg, runDict, runResolver, runTask, runTimes, runIssued, runNow,
             runOut>>
storeVars == <<cacheDir, cacheNow, cacheCfg, cacheRes, cacheLast, cacheDamages>>
dictVars == <<dictPc, dictDisk, dictWords>>
aliveVars == <<alivePc, aliveIn, aliveResp, aliveReq, aliveResults, aliveCounts, aliveOut, aliveCalls>>
txtVars == <<txtDisk, txtCall>>
seqVars == <<seqNow, seqSnap, seqMade, seqRun, seqCount>>
boVars == <<boPc, boCfg, boPage, boAttempt, boWaits>>
exVars == <<exPc, exDns, exResolver, exSmart, exDict>>
pgVars == <<pgPc, pgSrv, pgMaxPages, pgTotalPages, pgPage, pgInFlight, pgIssued, pgMerged, pgDomains>>
caVars == <<caPc, caResults, caHidden, caNormal, caProbes, caCompleted>>
cbVars == <<cbPc, cbBatchSize, cbLeft, cbInFlight, cbBatches>>
rcVars == <<rcDir, rcNow, rcSweep, rcSave>>
vars    == <<fsVars, cmpVars, allVars, colVars, fofaVars, bfVars, histVars, runVars, storeVars, dictVars, aliveVars, txtVars, seqVars, boVars, exVars, pgVars, caVars, cbVars, rcVars>>

\* what each command leaves alone
outsideCompare == <<allVars, colVars, fofaVars, bfVars, histVars, runVars, storeVars, dictVars, aliveVars, txtVars, seqVars, boVars, exVars, pgVars, caVars, cbVars, rcVars>>
outsideAll     == <<colVars, fofaVars, bfVars, histVars, runVars, storeVars, dictVars, aliveVars, txtVars, seqVars, boVars, exVars, pgVars, caVars, cbVars, rcVars>>
outsideCollect == <<cmpVars, allVars, fofaVars, bfVars, histVars, runVars, storeVars, dictVars, aliveVars, txtVars, seqVars, boVars, exVars, pgVars, caVars, cbVars, rcVars>>
outsideFofa    == <<cmpVars, allVars, colVars, bfVars, histVars, runVars, storeVars, dictVars, aliveVars, txtVars, seqVars, boVars, exVars, pgVars, caVars, cbVars, rcVars>>
outsideBrute   == <<fsVars, cmpVars, allVars, colVars, fofaVars, histVars, runVars, storeVars, dictVars, aliveVars, txtVars, seqVars, boVars, exVars, pgVars, caVars, cbVars, rcVars>>
outsideStreak  == <<fsVars, cmpVars, allVars, colVars, fofaVars, runVars, storeVars, dictVars, aliveVars, txtVars, seqVars, boVars, exVars, pgVars, caVars, cbVars, rcVars>>
outsideRun     == <<cmpVars, allVars, colVars, fofaVars, histVars, storeVars, dictVars, aliveVars, txtVars, seqVars, boVars, exVars, pgVars, caVars, cbVars, rcVars>>
outsideStore == <<fsVars, cmpVars, allVars, colVars, fofaVars, bfVars, histVars, runVars, dictVars, aliveVars, txtVars, seqVars, boVars, exVars, pgVars, caVars, cbVars, rcVars>>
outsideDict == <<fsVars, cmpVars, allVars, colVars, fofaVars, bfVars, histVars, runVars, storeVars, aliveVars, txtVars, seqVars, boVars, exVars, pgVars, caVars, cbVars, rcVars>>
outsideAlive == <<fsVars, cmpVars, allVars, colVars, fofaVars, bfVars, histVars, runVars, storeVars, dictVars, txtVars, seqVars, boVars, exVars, pgVars, caVars, cbVars, rcVars>>
outsideText == <<fsVars, cmpVars, allVars, colVars, fofaVars, bfVars, histVars, runVars, storeVars, dictVars, aliveVars, seqVars, boVars, exVars, pgVars, caVars, cbVars, rcVars>>
outsideRuns == <<fsVars, cmpVars, allVars, colVars, fofaVars, bfVars, histVars, runVars, storeVars, dictVars, aliveVars, txtVars, boVars, exVars, pgVars, caVars, cbVars, rcVars>>
outsideBackoff == <<fsVars, cmpVars, allVars, colVars, fofaVars, bfVars, histVars, runVars, storeVars, dictVars, aliveVars, txtVars, seqVars, exVars, pgVars, caVars, cbVars, rcVars>>
outsideExists == <<fsVars, cmpVars, allVars, colVars, fofaVars, bfVars, histVars, runVars, storeVars, dictVars, aliveVars, txtVars, seqVars, boVars, pgVars, caVars, cbVars, rcVars>>
outsidePages == <<fsVars, cmpVars, allVars, colVars, fofaVars, bfVars, histVars, runVars, storeVars, dictVars, aliveVars, txtVars, seqVars, boVars, exVars, caVars, cbVars, rcVars>>
outsideCheckAlive == <<fsVars, cmpVars, allVars, colVars, fofaVars, bfVars, histVars, runVars, storeVars, dictVars, aliveVars, txtVars, seqVars, boVars, exVars, pgVars, cbVars, rcVars>>
outsideBatches == <<fsVars, cmpVars, allVars, colVars, fofaVars, bfVars, histVars, runVars, storeVars, dictVars, aliveVars, txtVars, seqVars, boVars, exVars, pgVars, caVars, rcVars>>
outsideRace == <<fsVars, cmpVars, allVars, colVars, fofaVars, bfVars, histVars, runVars, storeVars, dictVars, aliveVars, txtVars, seqVars, boVars, exVars, pgVars, caVars, cbVars>>

----------------------------------------------------------------------------
(* Bounds of the model *)

MaxLines == 2       \* lines in a file supplied to `compare`
MaxSetSize == 2     \* domains returned by one source in an `all` run
MaxClock == 2       \* seconds that can elapse during a run
MaxResp == 2        \* names in one response of a remote source

----------------------------------------------------------------------------
(* Text *)

Min(a, b) == IF a <= b THEN a ELSE b
Max(a, b) == IF a >= b THEN a ELSE b

\* str.lower(), on the alphabet of the model
LowerChar(ch) == CASE ch = "S" -> "s" [] ch = "T" -> "t" [] OTHER -> ch
Lower(s) == [i \in DOMAIN s |-> LowerChar(s[i])]

IsSpace(ch) == ch = " "

RECURSIVE LStrip(_)
LStrip(s) == IF s # <<>> /\ IsSpace(Head(s)) THEN LStrip(Tail(s)) ELSE s

RECURSIVE RStrip(_)
RStrip(s) ==
    IF s # <<>> /\ IsSpace(s[Len(s)]) THEN RStrip(SubSeq(s, 1, Len(s) - 1)) ELSE s

\* str.strip()
Strip(s) == RStrip(LStrip(s))

\* s.endswith(suffix)
EndsWith(s, suffix) ==
    /\ Len(suffix) <= Len(s)
    /\ SubSeq(s, Len(s) - Len(suffix) + 1, Len(s)) = suffix

\* `needle in s` for strings
Contains(s, needle) ==
    \E i \in 1..(Len(s) - Len(needle) + 1) :
        SubSeq(s, i, i + Len(needle) - 1) = needle

\* `ch in s` for one character
HasChar(s, ch) == \E i \in DOMAIN s : s[i] = ch

\* the subsets of S with at most n elements
SubsetsUpTo(S, n) == {X \in SUBSET S : Cardinality(X) <= n}

----------------------------------------------------------------------------
(* Names *)

\* the target domain of the run, "t.c"
TARGET == <<"t", ".", "c">>

\* "a.t.c", "b.t.c", "c.t.c", "d.t.c": subdomains of the target
Sub(ch) == <<ch, ".">> \o TARGET
Domains == {Sub("a"), Sub("b"), Sub("c"), Sub("d")}

\* lines a user-supplied file can hold: domains, a padded domain, blank lines
FileLines ==
    {Sub("a"), Sub("b"), Sub("c"), <<" ">> \o Sub("a") \o <<" ">>, <<>>, <<" ">>}

----------------------------------------------------------------------------
(* Files and Config *)

\* os.path.exists(path) is false
NoFile == [exists |-> FALSE, lines |-> {}]
\* a file holding the given lines
File(lines) == [exists |-> TRUE, lines |-> lines]

NoSnap == [exists |-> FALSE, timestamp |-> 0, deep |-> {}, fofa |-> {}]
NoResult == [done |-> FALSE, hidden |-> {}, total |-> {}]

Kinds == {"deep", "fofa", "brute", "hidden", "total"}
Stamps == 0..MaxClock
Paths == Kinds \X Stamps

\* handlers/file.py FileResultHandler.handle, and the same loop in
\* compare_domains, brute_force_subdomains, FofaCollector.collect:
\* one line per domain (sorted; the order is not kept by the set of lines)
WriteDomains(files, path, domains) == [files EXCEPT ![path] = File(domains)]

\* ComparisonHandler._read_domains_from_file
ReadDomainsFromFile(files, path) ==
    IF ~files[path].exists
    THEN {}
    ELSE {Strip(line) : line \in {l \in files[path].lines : Strip(l) # <<>>}}

\* Config.init_file_paths: every output path gets the given timestamp
InitFilePaths(c, timestamp) ==
    [c EXCEPT !.CURRENT_TIMESTAMP = timestamp,
              !.DEFAULT_OUTPUT_FILE = <<"deep", timestamp>>,
              !.FOFA_OUTPUT_FILE = <<"fofa", timestamp>>,
              !.RESULT_OUTPUT_FILE = <<"hidden", timestamp>>,
              !.BRUTE_OUTPUT_FILE = <<"brute", timestamp>>,
              !.TOTAL_OUTPUT_FILE = <<"total", timestamp>>]

\* the class attributes of Config before any run
ConfigDefaults ==
    [CURRENT_TIMESTAMP |-> 0,
     DEFAULT_OUTPUT_FILE |-> <<"deep", 0>>,
     FOFA_OUTPUT_FILE |-> <<"fofa", 0>>,
     RESULT_OUTPUT_FILE |-> <<"hidden", 0>>,
     BRUTE_OUTPUT_FILE |-> <<"brute", 0>>,
     TOTAL_OUTPUT_FILE |-> <<"total", 0>>,
     DISABLE_CACHE |-> FALSE,
     DISABLE_DICT_BRUTE |-> TRUE]

EmptyFs == [p \in Paths |-> NoFile]

----------------------------------------------------------------------------
(* ComparisonHandler (handlers/comparison.py) *)

\* the set algebra of compare_domains
HiddenDomains_NoBrute(deep, fofa, brute) == deep \ fofa
HiddenDomains(deep, fofa, brute) == (deep \cup brute) \ fofa
TotalDomains(deep, fofa, brute) == (deep \cup fofa) \cup brute

\* compare_domains: what it returns, given the files
CompareResult(files, h) ==
    LET deep == ReadDomainsFromFile(files, h.deep_file)
        fofa == ReadDomainsFromFile(files, h.fofa_file)
        brute == ReadDomainsFromFile(files, h.brute_file)
    IN  [done |-> TRUE,
         hidden |-> HiddenDomains(deep, fofa, brute),
         total |-> TotalDomains(deep, fofa, brute)]

\* compare_domains: the files after it wrote the two results
CompareWrites(files, h) ==
    LET r == CompareResult(files, h)
    IN  WriteDomains(WriteDomains(files, h.result_file, r.hidden),
                     h.total_file, r.total)

\* ComparisonHandler.__init__ with explicit paths
Handler(fofa, deep, result, brute, total) ==
    [fofa_file |-> fofa, deep_file |-> deep, result_file |-> result,
     brute_file |-> brute, total_file |-> total]

NoHandler == Handler(<<"fofa", 0>>, <<"deep", 0>>, <<"hidden", 0>>,
                     <<"brute", 0>>, <<"total", 0>>)

\* a collect() task that has not completed / returned a set / raised
Pending == [state |-> "pending", domains |-> {}]
Returned(domains) == [state |-> "returned", domains |-> domains]
Raised == [state |-> "raised", domains |-> {}]

\* CollectorFactory.create_collectors: the three passive collectors
Collectors == {"OTXCollector", "CrtCollector", "ArchiveCollector"}

NoOutput == [returned |-> FALSE, raised |-> FALSE, from_cache |-> FALSE,
             deep |-> {}, brute |-> {}, fofa |-> {}]

ColIdle ==
    /\ colPc = "idle"
    /\ colTask = [c \in Collectors |-> Pending]
    /\ colOut = NoOutput

\* what FofaCollector.collect returned, before it returns
NoFofaOutput == [returned |-> FALSE, raised |-> FALSE, domains |-> {}]

\* Config.FOFA_RETRY_DELAY; the longest wait after a 429 response
FOFA_RETRY_DELAY == 2
MAX_WAIT_TIME == 300

\* no response yet
NoCooldown == [limited |-> FALSE, slept |-> 0]

FofaIdle ==
    /\ fofaPc = "idle"
    /\ fofaCfg = [api_key |-> "", max_pages |-> 1, retry_count |-> 0,
                  retry_delay |-> FOFA_RETRY_DELAY]
    /\ fofaCooldown = NoCooldown
    /\ fofaSrv = [full |-> 0, last |-> 0, size |-> 0, items |-> {}]
    /\ fofaPage = 0
    /\ fofaAttempt = 0
    /\ fofaLog = <<>>
    /\ fofaTotalPages = 0
    /\ fofaDomains = {}
    /\ fofaRateLimit = 0
    /\ fofaOut = NoFofaOutput

\* SmartBruteForcer.__init__ with the given rate (in units of 1/RateScale)
NewSmartBruteForcer(rate, smart_adjust) ==
    [target_rate |-> rate, current_rate |-> rate, smart_adjust |-> smart_adjust,
     consecutive_successes |-> 0, consecutive_timeouts |-> 0,
     success_count |-> 0, fail_count |-> 0]

BfIdle == bf = NewSmartBruteForcer(0, FALSE)

HistIdle == streak = 0

\* the dictionary file: missing, unreadable, or holding lines
DictFile(exists, readable, lines) ==
    [exists |-> exists, readable |-> readable, lines |-> lines]

\* what a brute-force run returned, before it returns
NoRunOutput == [returned |-> FALSE, raised |-> FALSE, found |-> {}, file |-> NoFile]

RunIdle ==
    /\ runPc = "idle"
    /\ runCfg = [engine |-> "DictBuilder", concurrency |-> 1, brute_attrs |-> FALSE]
    /\ runDict = DictFile(FALSE, FALSE, {})
    /\ runResolver = FALSE
    /\ runTask = <<>>
    /\ runTimes = <<>>
    /\ runIssued = <<>>
    /\ runNow = 0
    /\ runOut = NoRunOutput

\* the CacheManager before any call, over an empty cache directory
NoCall == [op |-> "none", raised |-> FALSE, valid |-> FALSE, deep |-> {}, fofa |-> {}]
NoSaves == [saved |-> FALSE, intact |-> TRUE, deep |-> {}, fofa |-> {}]
StoreIdle ==
    /\ cacheDir = <<>>
    /\ cacheNow = 0
    /\ cacheCfg = [DISABLE_CACHE |-> FALSE]
    /\ cacheRes = NoCall
    /\ cacheLast = NoSaves
    /\ cacheDamages = 0

\* no DictBuilder
DictIdle ==
    /\ dictPc = "none"
    /\ dictDisk = DictFile(FALSE, FALSE, {})
    /\ dictWords = {}

\* AliveChecker.__init__
NoAliveOutput == [returned |-> FALSE, alive |-> {}, dead |-> {}, saved |-> FALSE]
AliveIdle ==
    /\ alivePc = "idle"
    /\ aliveIn = {}
    /\ aliveResp = <<>>
    /\ aliveReq = <<>>
    /\ aliveResults = {}
    /\ aliveCounts = [total_count |-> 0, alive_count |-> 0, dead_count |-> 0]
    /\ aliveOut = NoAliveOutput
    /\ aliveCalls = 0

\* result files as text: none exists, nothing was called
TextPaths == {"deep", "fofa", "brute", "hidden", "total", "out"}
NoTextFile == [exists |-> FALSE, readable |-> FALSE, content |-> <<>>]
NoTextCall ==
    [op |-> "none", domains |-> {}, written |-> FALSE, value |-> {},
     hidden |-> {}, total |-> {}, hidden_written |-> FALSE,
     total_written |-> FALSE, raised |-> FALSE]
TxtIdle ==
    /\ txtDisk = [p \in TextPaths |-> NoTextFile]
    /\ txtCall = NoTextCall

\* no `all` run yet, no snapshot
NoAllRun ==
    [ran |-> FALSE, at |-> 0, no_cache |-> FALSE, before |-> NoSnap, hit |-> FALSE,
     deep |-> {}, fofa |-> {}, queried |-> {}, collected |-> 0]
SeqIdle ==
    /\ seqNow = 0
    /\ seqSnap = NoSnap
    /\ seqMade = [collected |-> 0, full |-> FALSE]
    /\ seqRun = NoAllRun
    /\ seqCount = 0

\* the retry loop: not entered
BoIdle ==
    /\ boPc = "idle"
    /\ boCfg = [retry_delay |-> 0, backoff_factor |-> [num |-> 1, den |-> 1], page_interval |-> 0]
    /\ boPage = 0
    /\ boAttempt = 0
    /\ boWaits = <<>>

\* the existence checks: no candidate was looked up
ExIdle ==
    /\ exPc = "idle"
    /\ exDns = <<>>
    /\ exResolver = TRUE
    /\ exSmart = <<>>
    /\ exDict = <<>>

\* collect, request by request: not called
PgIdle ==
    /\ pgPc = "idle"
    /\ pgSrv = [pages |-> 0, size |-> 0]
    /\ pgMaxPages = 0
    /\ pgTotalPages = 0
    /\ pgPage = 0
    /\ pgInFlight = {}
    /\ pgIssued = <<>>
    /\ pgMerged = {}
    /\ pgDomains = {}

\* check_alive: not called
CaIdle ==
    /\ caPc = "idle"
    /\ caResults = [hidden |-> {}, total |-> {}]
    /\ caHidden = {}
    /\ caNormal = {}
    /\ caProbes = [d \in Domains |-> 0]
    /\ caCompleted = {}

\* check_domains_alive: not called
CbIdle ==
    /\ cbPc = "idle"
    /\ cbBatchSize = 0
    /\ cbLeft = 0
    /\ cbInFlight = 0
    /\ cbBatches = 0

\* no sweep was started and nothing is being saved
NoSweep == [pc |-> "none", files |-> {}, name |-> 0, outcome |-> "none", timestamp |-> 0]
NoSave == [pc |-> "idle", path |-> 0]
RcIdle ==
    /\ rcDir = <<>>
    /\ rcNow = 0
    /\ rcSweep = NoSweep
    /\ rcSave = NoSave

AllIdle ==
    /\ allPc = "idle"
    /\ allIn = [P |-> {}, F |-> {}, B |-> {}]
    /\ allFiles = NoHandler
    /\ allObj = [collector_out |-> <<"deep", 0>>, processor_out |-> <<"total", 0>>]
    /\ allRes = [from_cache |-> FALSE, deep |-> {}, brute |-> {}, fofa |-> {}]

\* the `compare` command on three files the user supplies
InitCompare ==
    /\ \E d, f, b \in {NoFile} \cup {File(x) : x \in SubsetsUpTo(FileLines, MaxLines)} :
          fs = [EmptyFs EXCEPT ![<<"deep", 0>>] = d,
                               ![<<"fofa", 0>>] = f,
                               ![<<"brute", 0>>] = b]
    /\ clock = 0
    /\ cfg = ConfigDefaults
    /\ cacheSnap = NoSnap
    /\ cmpFiles = NoHandler
    /\ cmpResult = NoResult
    /\ AllIdle
    /\ ColIdle
    /\ FofaIdle
    /\ BfIdle
    /\ HistIdle
    /\ RunIdle
    /\ StoreIdle
    /\ DictIdle
    /\ AliveIdle
    /\ TxtIdle
    /\ SeqIdle
    /\ BoIdle
    /\ ExIdle
    /\ PgIdle
    /\ CaIdle
    /\ CbIdle
    /\ RcIdle

\* ComparisonHandler.compare_domains
CompareDomains ==
    /\ ~cmpResult.done
    /\ cmpResult' = CompareResult(fs, cmpFiles)
    /\ fs' = CompareWrites(fs, cmpFiles)
    /\ UNCHANGED <<clock, cfg, cacheSnap, cmpFiles, outsideCompare>>

NextCompare == CompareDomains

SpecCompare == InitCompare /\ [][NextCompare]_vars

\* the set compare_domains reads from one of its input files: the stripped,
\* non-blank lines (the input files are not among the files it writes)
InputSet(path) == {Strip(l) : l \in {x \in fs[path].lines : Strip(x) # <<>>}}

\* C1: whatever the three input files hold, compare_domains returns
\* hidden = (deep + brute) - fofa and total = deep + fofa + brute, so that
\* hidden is inside total and shares nothing with fofa.
C1_SetAlgebra ==
    cmpResult.done =>
        LET deep == InputSet(cmpFiles.deep_file)
            fofa == InputSet(cmpFiles.fofa_file)
            brute == InputSet(cmpFiles.brute_file)
        IN  /\ \A x \in deep \cup fofa \cup brute \cup cmpResult.hidden \cup cmpResult.total :
                 /\ x \in cmpResult.hidden <=> ((x \in deep \/ x \in brute) /\ x \notin fofa)
                 /\ x \in cmpResult.total <=> (x \in deep \/ x \in fofa \/ x \in brute)
            /\ cmpResult.hidden \subseteq cmpResult.total
            /\ cmpResult.hidden \cap fofa = {}

\* a comparison in which a brute-only domain is hidden and a deep domain is
\* masked by FOFA
C1_Witness ==
    /\ cmpResult.done
    /\ \E x \in cmpResult.hidden :
          x \in InputSet(cmpFiles.brute_file) /\ x \notin InputSet(cmpFiles.deep_file)
    /\ \E y \in InputSet(cmpFiles.deep_file) :
          y \in InputSet(cmpFiles.fofa_file) /\ y \notin cmpResult.hidden

----------------------------------------------------------------------------
(* CacheManager (cacher/manager.py), as far as the runs read it *)

CACHE_EXPIRE_DAYS == 3

\* a snapshot file written at `timestamp`
Snap(timestamp, deep, fofa) ==
    [exists |-> TRUE, timestamp |-> timestamp, deep |-> deep, fofa |-> fofa]

\* CacheManager.has_valid_cache
HasValidCache(c, snap, now) ==
    IF c.DISABLE_CACHE THEN FALSE
    ELSE IF ~snap.exists THEN FALSE
    ELSE IF now - snap.timestamp > CACHE_EXPIRE_DAYS * 86400 THEN FALSE
    ELSE TRUE

\* CacheManager.get_cached_domains
GetCachedDomains(c, snap, now) ==
    IF ~HasValidCache(c, snap, now)
    THEN [deep |-> {}, fofa |-> {}]
    ELSE [deep |-> snap.deep, fofa |-> snap.fofa]

\* CacheManager.save_domains_to_cache
SaveDomainsToCache(c, snap, now, deep, fofa) ==
    IF c.DISABLE_CACHE THEN snap ELSE Snap(now, deep, fofa)

----------------------------------------------------------------------------
(* CLI.execute_all (core/cli.py) and the objects it builds (core/core.py) *)

\* the cache check at the head of SubdomainCollector.collect
CacheHit(c, snap, now) == ~c.DISABLE_CACHE /\ HasValidCache(c, snap, now)

\* time passes between any two steps of a run
Tick ==
    /\ allPc \notin {"idle", "done"}
    /\ clock < MaxClock
    /\ clock' = clock + 1
    /\ UNCHANGED <<fs, cfg, cacheSnap, cmpVars, allVars, outsideAll>>

\* lines 328-346: one timestamp is taken, the five paths are recorded
AllStart ==
    /\ allPc = "start"
    /\ cfg' = InitFilePaths(cfg, clock)
    /\ allFiles' = Handler(cfg'.FOFA_OUTPUT_FILE, cfg'.DEFAULT_OUTPUT_FILE,
                           cfg'.RESULT_OUTPUT_FILE, cfg'.BRUTE_OUTPUT_FILE,
                           cfg'.TOTAL_OUTPUT_FILE)
    /\ allPc' = "new_collector"
    /\ UNCHANGED <<fs, clock, cacheSnap, cmpVars, allIn, allObj, allRes, outsideAll>>

\* SubdomainCollector.__init__(output_file=deep_file): sets the switches and
\* calls Config.init_file_paths(target_domain) with a fresh timestamp
NewSubdomainCollector ==
    /\ allPc = "new_collector"
    /\ cfg' = InitFilePaths(cfg, clock)
    /\ allObj' = [allObj EXCEPT !.collector_out = allFiles.deep_file]
    /\ allPc' = "run_collector"
    /\ UNCHANGED <<fs, clock, cacheSnap, cmpVars, allIn, allFiles, allRes, outsideAll>>

\* DictBuilder.brute_force_subdomains: the result is saved, when it is not
\* empty, to Config.BRUTE_OUTPUT_FILE as it is at that moment
BruteForceWrites(files, c, found) ==
    IF found # {} THEN WriteDomains(files, c.BRUTE_OUTPUT_FILE, found) ELSE files

\* SubdomainCollector.run: collect() (cache check, passive collectors,
\* brute force) and process_results() (the deep set goes to the output file)
SubdomainCollectorRun ==
    /\ allPc = "run_collector"
    /\ LET hit == CacheHit(cfg, cacheSnap, clock)
           cached == GetCachedDomains(cfg, cacheSnap, clock)
           deep == IF hit THEN cached.deep ELSE allIn.P
           brute == IF hit \/ cfg.DISABLE_DICT_BRUTE THEN {} ELSE allIn.B
           fofa == IF hit THEN cached.fofa ELSE {}
       IN  /\ allRes' = [from_cache |-> hit, deep |-> deep, brute |-> brute,
                          fofa |-> fofa]
           /\ fs' = WriteDomains(BruteForceWrites(fs, cfg, brute),
                                 allObj.collector_out, deep)
    /\ allPc' = "new_fofa"
    /\ UNCHANGED <<clock, cfg, cacheSnap, cmpVars, allIn, allFiles, allObj, outsideAll>>

\* FofaSubdomainCollector.__init__(output_file=fofa_file): a fresh timestamp,
\* then Config.FOFA_OUTPUT_FILE is set to the given path
NewFofaSubdomainCollector ==
    /\ allPc = "new_fofa"
    /\ cfg' = [InitFilePaths(cfg, clock) EXCEPT !.FOFA_OUTPUT_FILE = allFiles.fofa_file]
    /\ allPc' = "run_fofa"
    /\ UNCHANGED <<fs, clock, cacheSnap, cmpVars, allIn, allFiles, allObj, allRes, outsideAll>>

\* FofaSubdomainCollector.run: collect(), then process_results() writes the
\* set to Config.FOFA_OUTPUT_FILE; deep_results['fofa'] = fofa_domains
FofaSubdomainCollectorRun ==
    /\ allPc = "run_fofa"
    /\ fs' = WriteDomains(fs, cfg.FOFA_OUTPUT_FILE, allIn.F)
    /\ allRes' = [allRes EXCEPT !.fofa = allIn.F]
    /\ allPc' = "new_processor"
    /\ UNCHANGED <<clock, cfg, cacheSnap, cmpVars, allIn, allFiles, allObj, outsideAll>>

\* DomainProcessor.__init__: a fresh timestamp; the handler keeps
\* Config.TOTAL_OUTPUT_FILE as it is now
NewDomainProcessor ==
    /\ allPc = "new_processor"
    /\ cfg' = InitFilePaths(cfg, clock)
    /\ allObj' = [allObj EXCEPT !.processor_out = cfg'.TOTAL_OUTPUT_FILE]
    /\ allPc' = "run_processor"
    /\ UNCHANGED <<fs, clock, cacheSnap, cmpVars, allIn, allFiles, allRes, outsideAll>>

\* DomainProcessor.run: cache write, then deep | fofa to the total file
DomainProcessorRun ==
    /\ allPc = "run_processor"
    /\ cacheSnap' = SaveDomainsToCache(cfg, cacheSnap, clock, allRes.deep, allRes.fofa)
    /\ fs' = WriteDomains(fs, allObj.processor_out, allRes.deep \cup allRes.fofa)
    /\ allPc' = "compare"
    /\ UNCHANGED <<clock, cfg, cmpVars, allIn, allFiles, allObj, allRes, outsideAll>>

\* execute_compare(temp_args) with from_all set: a ComparisonHandler on the
\* five recorded paths, then compare_domains
AllCompare ==
    /\ allPc = "compare"
    /\ cmpFiles' = allFiles
    /\ cmpResult' = CompareResult(fs, allFiles)
    /\ fs' = CompareWrites(fs, allFiles)
    /\ allPc' = "new_comparator"
    /\ UNCHANGED <<clock, cfg, cacheSnap, allIn, allFiles, allObj, allRes, outsideAll>>

\* DomainComparator.__init__ for the liveness step: a fresh timestamp
NewDomainComparator ==
    /\ allPc = "new_comparator"
    /\ cfg' = InitFilePaths(cfg, clock)
    /\ allPc' = "done"
    /\ UNCHANGED <<fs, clock, cacheSnap, cmpVars, allIn, allFiles, allObj, allRes, outsideAll>>

\* an `all` run: the switches of the command line, the cache left by
\* earlier runs, and what the three sources will return
InitAll ==
    /\ fs = EmptyFs
    /\ clock = 0
    /\ \E noCache, noBrute \in BOOLEAN :
          cfg = [ConfigDefaults EXCEPT !.DISABLE_CACHE = noCache,
                                       !.DISABLE_DICT_BRUTE = noBrute]
    /\ cacheSnap \in {NoSnap, Snap(-1, {Sub("a")}, {Sub("b")})}
    /\ cmpFiles = NoHandler
    /\ cmpResult = NoResult
    /\ allPc = "start"
    /\ \E p, f, b \in SubsetsUpTo(Domains, MaxSetSize) :
          allIn = [P |-> p, F |-> f, B |-> b]
    /\ allFiles = NoHandler
    /\ allObj = [collector_out |-> <<"deep", 0>>, processor_out |-> <<"total", 0>>]
    /\ allRes = [from_cache |-> FALSE, deep |-> {}, brute |-> {}, fofa |-> {}]
    /\ ColIdle
    /\ FofaIdle
    /\ BfIdle
    /\ HistIdle
    /\ RunIdle
    /\ StoreIdle
    /\ DictIdle
    /\ AliveIdle
    /\ TxtIdle
    /\ SeqIdle
    /\ BoIdle
    /\ ExIdle
    /\ PgIdle
    /\ CaIdle
    /\ CbIdle
    /\ RcIdle

NextAll ==
    \/ Tick
    \/ AllStart
    \/ NewSubdomainCollector
    \/ SubdomainCollectorRun
    \/ NewFofaSubdomainCollector
    \/ FofaSubdomainCollectorRun
    \/ NewDomainProcessor
    \/ DomainProcessorRun
    \/ AllCompare
    \/ NewDomainComparator

SpecAll == InitAll /\ [][NextAll]_vars

\* C2: in an `all` run with a cache miss and brute force enabled, in which
\* the passive collectors return P, FOFA returns F and the brute-forcer
\* returns B, the comparison of that run yields hidden = (P + B) - F and
\* total = P + F + B, whatever time elapses between the steps.
C2_AllRunEndToEnd ==
    (allPc = "done" /\ ~allRes.from_cache /\ ~cfg.DISABLE_DICT_BRUTE) =>
        /\ cmpResult.hidden = (allIn.P \cup allIn.B) \ allIn.F
        /\ cmpResult.total = (allIn.P \cup allIn.F) \cup allIn.B

----------------------------------------------------------------------------
(* The passive collectors (collectors/otx.py, crt.py, archive.py) *)

\* names a remote source can return for the target "t.c": the target, a
\* subdomain "s.t.c", "nt.c", "t.c.e", "o.c", a wildcard "*.t.c", "S.t.c"
RemoteNames ==
    {TARGET, Sub("s"), <<"n">> \o TARGET, TARGET \o <<".", "e">>,
     <<"o", ".", "c">>, <<"*", ".">> \o TARGET, <<"S", ".">> \o TARGET}

\* netloc values of archived URLs: the names, and one with a port, "s.t.c:8"
RemoteNetlocs == RemoteNames \cup {Sub("s") \o <<":", "8">>}

\* the character class [a-z]
IsLowerAlpha(ch) == ch \in {"a", "b", "c", "d", "e", "n", "o", "s", "t"}

\* a table cell captured by r'<TD.*?>([^<]*\.[a-z]+)</TD>': its text ends
\* with a dot followed by lower-case letters only
CrtCellMatches(text) ==
    \E i \in 1..(Len(text) - 1) :
        /\ text[i] = "."
        /\ \A j \in (i + 1)..Len(text) : IsLowerAlpha(text[j])

\* CrtCollector.collect, status 200: the relevant_domains of the cells
CrtRelevantDomains(cells, target) ==
    {Strip(name) : name \in {n \in cells : /\ CrtCellMatches(n)
                                           /\ Contains(Lower(n), target)
                                           /\ ~HasChar(n, "*")}}

\* OTXCollector.collect, status 200: the hostname of every url_list item
OTXHostnames(hostnames) == hostnames

\* netloc.split(':')[0]
RECURSIVE BeforeColon(_)
BeforeColon(s) ==
    IF s = <<>> \/ Head(s) = ":" THEN <<>> ELSE <<Head(s)>> \o BeforeColon(Tail(s))

\* ArchiveCollector._fetch_archive_data: the hosts kept from the lines read
ArchiveSeen(netlocs, target) ==
    {BeforeColon(n) : n \in {x \in netlocs : /\ BeforeColon(x) # <<>>
                                             /\ Contains(Lower(BeforeColon(x)), target)}}

\* OTXCollector.collect: not 200 gives the empty set, an exception is re-raised
OTXCollect ==
    /\ colPc = "gather"
    /\ colTask["OTXCollector"] = Pending
    /\ \/ colTask' = [colTask EXCEPT !["OTXCollector"] = Returned({})]
       \/ colTask' = [colTask EXCEPT !["OTXCollector"] = Raised]
       \/ \E resp \in SubsetsUpTo(RemoteNames, MaxResp) :
             colTask' = [colTask EXCEPT !["OTXCollector"] = Returned(OTXHostnames(resp))]
    /\ UNCHANGED <<fsVars, colPc, colOut, outsideCollect>>

\* CrtCollector.collect: not 200 gives the empty set, an exception is re-raised
CrtCollect ==
    /\ colPc = "gather"
    /\ colTask["CrtCollector"] = Pending
    /\ \/ colTask' = [colTask EXCEPT !["CrtCollector"] = Returned({})]
       \/ colTask' = [colTask EXCEPT !["CrtCollector"] = Raised]
       \/ \E cells \in SubsetsUpTo(RemoteNames, MaxResp) :
             colTask' = [colTask EXCEPT !["CrtCollector"] =
                                            Returned(CrtRelevantDomains(cells, TARGET))]
    /\ UNCHANGED <<fsVars, colPc, colOut, outsideCollect>>

\* ArchiveCollector.collect: _fetch_archive_data swallows every error and
\* returns what it has seen in the lines read until then; an exception of
\* the executor is re-raised
ArchiveCollect ==
    /\ colPc = "gather"
    /\ colTask["ArchiveCollector"] = Pending
    /\ \/ colTask' = [colTask EXCEPT !["ArchiveCollector"] = Raised]
       \/ \E read \in SubsetsUpTo(RemoteNetlocs, MaxResp) :
             colTask' = [colTask EXCEPT !["ArchiveCollector"] =
                                            Returned(ArchiveSeen(read, TARGET))]
    /\ UNCHANGED <<fsVars, colPc, colOut, outsideCollect>>

----------------------------------------------------------------------------
(* SubdomainCollector.collect (core/core.py) *)

\* lines 110-117: the union of the results that are not exceptions
GatherDeep(tasks) ==
    UNION {tasks[c].domains : c \in {x \in Collectors : tasks[x].state = "returned"}}

\* lines 107-130: asyncio.gather(return_exceptions=True) hands exceptions
\* over as results, the method returns the dictionary
CollectReturn_Propagating(tasks, brute) ==
    IF \E c \in Collectors : tasks[c].state = "raised"
    THEN [NoOutput EXCEPT !.raised = TRUE]
    ELSE [returned |-> TRUE, raised |-> FALSE, from_cache |-> FALSE,
          deep |-> GatherDeep(tasks), brute |-> brute, fofa |-> {}]
CollectReturn(tasks, brute) ==
    [returned |-> TRUE, raised |-> FALSE, from_cache |-> FALSE,
     deep |-> GatherDeep(tasks), brute |-> brute, fofa |-> {}]

\* lines 88-104: the cache check; on a miss one task per collector
CollectStart ==
    /\ colPc = "start"
    /\ IF CacheHit(cfg, cacheSnap, clock)
       THEN /\ colOut' = [returned |-> TRUE, raised |-> FALSE, from_cache |-> TRUE,
                          deep |-> GetCachedDomains(cfg, cacheSnap, clock).deep,
                          brute |-> {},
                          fofa |-> GetCachedDomains(cfg, cacheSnap, clock).fofa]
            /\ colPc' = "done"
       ELSE /\ colOut' = colOut
            /\ colPc' = "gather"
    /\ UNCHANGED <<fsVars, colTask, outsideCollect>>

\* lines 107-130: every task has completed; brute force unless disabled
CollectFinish ==
    /\ colPc = "gather"
    /\ \A c \in Collectors : colTask[c] # Pending
    /\ \E found \in SUBSET {Sub("a"), Sub("b")} :
          LET brute == IF cfg.DISABLE_DICT_BRUTE THEN {} ELSE found
          IN  /\ colOut' = CollectReturn(colTask, brute)
              /\ fs' = BruteForceWrites(fs, cfg, brute)
    /\ colPc' = "done"
    /\ UNCHANGED <<clock, cfg, cacheSnap, colTask, outsideCollect>>

\* the `collect` command: the switches and the cache left by earlier runs
InitCollect ==
    /\ fs = EmptyFs
    /\ clock = 0
    /\ \E noCache, noBrute \in BOOLEAN :
          cfg = [ConfigDefaults EXCEPT !.DISABLE_CACHE = noCache,
                                       !.DISABLE_DICT_BRUTE = noBrute]
    /\ cacheSnap \in {NoSnap, Snap(-1, {Sub("a")}, {Sub("b")})}
    /\ cmpFiles = NoHandler
    /\ cmpResult = NoResult
    /\ AllIdle
    /\ FofaIdle
    /\ BfIdle
    /\ colPc = "start"
    /\ colTask = [c \in Collectors |-> Pending]
    /\ colOut = NoOutput
    /\ HistIdle
    /\ RunIdle
    /\ StoreIdle
    /\ DictIdle
    /\ AliveIdle
    /\ TxtIdle
    /\ SeqIdle
    /\ BoIdle
    /\ ExIdle
    /\ PgIdle
    /\ CaIdle
    /\ CbIdle
    /\ RcIdle

NextCollect ==
    \/ CollectStart
    \/ OTXCollect
    \/ CrtCollect
    \/ ArchiveCollect
    \/ CollectFinish

SpecCollect == InitCollect /\ [][NextCollect]_vars

\* FofaCollector._is_subdomain, applied to names as they are
InScope(name, target) == name = target \/ EndsWith(name, <<".">> \o target)

\* C3: every name in the set a collector's collect() returned is the target
\* or ends with "." + target, whatever the remote source returned.
C3_CollectorOutputInScope ==
    \A c \in Collectors :
        \A name \in colTask[c].domains : InScope(name, TARGET)

\* C9: on a cache miss collect() invokes every passive collector and, for any
\* subset of them that raise, returns without raising a dictionary whose
\* 'deep' set holds exactly the names returned by the collectors that did
\* not raise.
C9_CollectSurvivesFailures ==
    (colPc = "done" /\ ~colOut.from_cache) =>
        /\ \A c \in Collectors : colTask[c].state \in {"returned", "raised"}
        /\ colOut.returned
        /\ ~colOut.raised
        /\ \A name \in RemoteNames \cup Domains :
              name \in colOut.deep <=>
                  \E c \in Collectors : /\ colTask[c].state = "returned"
                                        /\ name \in colTask[c].domains
        /\ colOut.deep \subseteq RemoteNames \cup Domains

\* a miss on which two collectors raised and the third returned names
C9_Witness ==
    /\ colPc = "done"
    /\ ~colOut.from_cache
    /\ colTask["OTXCollector"].state = "raised"
    /\ colTask["CrtCollector"].state = "raised"
    /\ colTask["ArchiveCollector"].state = "returned"
    /\ colOut.returned
    /\ colOut.deep = {Sub("s"), TARGET}

----------------------------------------------------------------------------
(* FofaCollector (collectors/fofa.py) *)

FOFA_PAGE_SIZE == 100
FOFA_RETRY_COUNT == 5

MaxFull == 2        \* pages of page_size records the API holds
MaxMaxPages == 4    \* the configured page cap, max_pages

\* s.startswith(prefix)
StartsWith(s, prefix) ==
    /\ Len(prefix) <= Len(s)
    /\ SubSeq(s, 1, Len(prefix)) = prefix

\* the longest prefix matching [^/:]*
RECURSIVE LeadingSegment(_)
LeadingSegment(s) ==
    IF s = <<>> \/ Head(s) \in {"/", ":"}
    THEN <<>>
    ELSE <<Head(s)>> \o LeadingSegment(Tail(s))

HttpScheme == <<"h", "t", "t", "p", ":", "/", "/">>
HttpsScheme == <<"h", "t", "t", "p", "s", ":", "/", "/">>

\* _extract_domain: group 1 of r'^(?:https?://)?([^/:]+)', lower-cased;
\* the empty string stands for None (group 1 is never empty)
ExtractDomain(url) ==
    LET rest == IF StartsWith(url, HttpsScheme)
                THEN SubSeq(url, Len(HttpsScheme) + 1, Len(url))
                ELSE IF StartsWith(url, HttpScheme)
                     THEN SubSeq(url, Len(HttpScheme) + 1, Len(url))
                     ELSE url
    IN  IF LeadingSegment(rest) # <<>>
        THEN Lower(LeadingSegment(rest))
        ELSE Lower(LeadingSegment(url))

\* _is_subdomain
IsSubdomain(domain, target) ==
    \/ Lower(domain) = Lower(target)
    \/ EndsWith(Lower(domain), <<".">> \o Lower(target))

\* collect, lines 322-343: the domains of the items [host, domain] of a page
PageDomains(items, target) ==
    UNION {
        LET host == Strip(item[1])
            domain == Strip(item[2])
            host_domain == ExtractDomain(host)
        IN  (IF host # <<>> /\ host_domain # <<>> /\ IsSubdomain(host_domain, target)
             THEN {host_domain} ELSE {})
            \cup
            (IF domain # <<>> /\ IsSubdomain(domain, target) THEN {domain} ELSE {})
        : item \in items}

\* items [host, domain] the API can hold: "https://s.t.c" / "t.c",
\* "S.t.c:8" / "", "nt.c" / "nt.c", "" / " a.t.c ", "t.c.e/x" / "o.c"
FofaItems ==
    {<<HttpsScheme \o Sub("s"), TARGET>>,
     <<<<"S", ".">> \o TARGET \o <<":", "8">>, <<>>>>,
     <<<<"n">> \o TARGET, <<"n">> \o TARGET>>,
     <<<<>>, <<" ">> \o Sub("a") \o <<" ">>>>,
     <<TARGET \o <<".", "e", "/", "x">>, <<"o", ".", "c">>>>}

\* Config.FOFA_RETRY_DELAY, and a delay whose first doubling passes the cap
RetryDelays == {FOFA_RETRY_DELAY, 100 * FOFA_RETRY_DELAY}

\* what one request can meet
Faults == {"none", "status_429", "status_500", "api_error", "no_results_field",
           "client_error", "timeout"}

\* the number of records the API holds for a page
ServerRecords(srv, page) ==
    IF page <= srv.full THEN FOFA_PAGE_SIZE
    ELSE IF page = srv.full + 1 THEN srv.last
    ELSE 0

\* the dictionary {'results': []} that _fetch_page returns on every failure
FailedPage == [results |-> 0, items |-> {}, size |-> 0, error |-> FALSE]

\* _fetch_page: the JSON of the response, or {'results': []}
FetchPage(srv, page, fault) ==
    IF fault # "none"
    THEN FailedPage
    ELSE [results |-> ServerRecords(srv, page),
          items |-> IF ServerRecords(srv, page) > 0 THEN srv.items ELSE {},
          size |-> srv.size,
          error |-> FALSE]

\* _fetch_page, lines 154-160: a 429 response increments rate_limit_count
RateLimitAfterFetch(count, fault) ==
    IF fault = "status_429" THEN count + 1 ELSE count

\* _fetch_page, lines 157-158: the wait after a 429 response
WaitTime_Uncapped(retry_delay, rate_limit_count) == retry_delay * 2 ^ rate_limit_count
WaitTime(retry_delay, rate_limit_count) ==
    Min(retry_delay * 2 ^ rate_limit_count, MAX_WAIT_TIME)

\* _fetch_page, lines 153-160: the response as recorded, with the seconds
\* slept before _fetch_page returns
Cooldown(retry_delay, counted, fault) ==
    [limited |-> fault = "status_429",
     slept |-> IF fault = "status_429" THEN WaitTime(retry_delay, counted) ELSE 0]

\* _fetch_page_with_retry, lines 100-108: the attempt returns its result
AttemptReturns(result) ==
    \/ result.results > 0
    \/ ~result.error /\ result.results = 0

\* _fetch_page_with_retry, lines 101-103
RateLimitAfterReturn(count, result) ==
    IF result.results > 0 /\ count > 0 THEN count - 1 ELSE count

\* _fetch_page_with_retry, line 77 and lines 115-117: no attempt is left
AttemptsExhausted(attempt, retry_count) == attempt + 1 > retry_count

\* _get_total_pages, lines 257-275
TotalPages(total_size, page_size) == (total_size + page_size - 1) \div page_size
CappedPages_Uncapped(total_pages, max_pages) == total_pages
CappedPages(total_pages, max_pages) == Min(total_pages, max_pages)

\* collect, lines 290-294: `if not self.api_key`
HasApiKey_Ignored(c) == TRUE
HasApiKey(c) == c.api_key # ""

\* one HTTP request, as recorded
Request(phase, page, attempt, fault) ==
    [phase |-> phase, page |-> page, attempt |-> attempt, failed |-> fault # "none"]

\* collect, lines 287-294: without an API key it returns set() at once
FofaStart ==
    /\ fofaPc = "start"
    /\ IF ~HasApiKey(fofaCfg)
       THEN /\ fofaOut' = [returned |-> TRUE, raised |-> FALSE, domains |-> {}]
            /\ fofaPc' = "done"
            /\ UNCHANGED <<fofaPage, fofaAttempt>>
       ELSE /\ fofaPc' = "total_pages"
            /\ fofaPage' = 1
            /\ fofaAttempt' = 0
            /\ UNCHANGED fofaOut
    /\ UNCHANGED <<fsVars, fofaCfg, fofaCooldown, fofaSrv, fofaLog, fofaTotalPages,
                   fofaDomains, fofaRateLimit, outsideFofa>>

\* one attempt of _fetch_page_with_retry that is followed by another attempt
\* (only when the result says `error`, which no result of _fetch_page does)
RetriesAfter(result) ==
    /\ ~AttemptReturns(result)
    /\ ~AttemptsExhausted(fofaAttempt, fofaCfg.retry_count)

\* the page handed to the caller of _fetch_page_with_retry
PageData(result) == IF AttemptReturns(result) THEN result ELSE FailedPage

\* _get_total_pages: one attempt to fetch page 1; when _fetch_page_with_retry
\* returns, the total is computed; with a total of 0 collect returns
FofaGetTotalPages ==
    /\ fofaPc = "total_pages"
    /\ \E fault \in Faults :
          LET result == FetchPage(fofaSrv, fofaPage, fault)
              data == PageData(result)
              counted == RateLimitAfterFetch(fofaRateLimit, fault)
          IN  /\ fofaLog' = Append(fofaLog,
                                   Request("total_pages", fofaPage, fofaAttempt, fault))
              /\ fofaCooldown' = Cooldown(fofaCfg.retry_delay, counted, fault)
              /\ IF RetriesAfter(result)
                 THEN /\ fofaAttempt' = fofaAttempt + 1
                      /\ fofaRateLimit' = counted
                      /\ UNCHANGED <<fofaPc, fofaPage, fofaTotalPages, fofaOut>>
                 ELSE /\ fofaRateLimit' = RateLimitAfterReturn(counted, data)
                      /\ fofaAttempt' = 0
                      /\ fofaPage' = 1
                      /\ IF data.size = 0
                         THEN /\ fofaTotalPages' = 0
                              /\ fofaOut' = [returned |-> TRUE, raised |-> FALSE,
                                             domains |-> fofaDomains]
                              /\ fofaPc' = "done"
                         ELSE /\ fofaTotalPages' =
                                     CappedPages(TotalPages(data.size, FOFA_PAGE_SIZE),
                                                 fofaCfg.max_pages)
                              /\ fofaOut' = fofaOut
                              /\ fofaPc' = "loop"
    /\ UNCHANGED <<fsVars, fofaCfg, fofaSrv, fofaDomains, outsideFofa>>

\* collect, lines 314-364: one attempt to fetch the current page; when
\* _fetch_page_with_retry returns, the page is merged into domains, and an
\* empty page or the last page ends the loop
FofaLoopPage ==
    /\ fofaPc = "loop"
    /\ \E fault \in Faults :
          LET result == FetchPage(fofaSrv, fofaPage, fault)
              data == PageData(result)
              counted == RateLimitAfterFetch(fofaRateLimit, fault)
          IN  /\ fofaLog' = Append(fofaLog, Request("loop", fofaPage, fofaAttempt, fault))
              /\ fofaCooldown' = Cooldown(fofaCfg.retry_delay, counted, fault)
              /\ IF RetriesAfter(result)
                 THEN /\ fofaAttempt' = fofaAttempt + 1
                      /\ fofaRateLimit' = counted
                      /\ UNCHANGED <<fofaPc, fofaPage, fofaDomains>>
                 ELSE /\ fofaRateLimit' = RateLimitAfterReturn(counted, data)
                      /\ fofaAttempt' = 0
                      /\ fofaDomains' = fofaDomains \cup PageDomains(data.items, TARGET)
                      /\ IF data.results = 0 \/ fofaPage = fofaTotalPages
                         THEN /\ fofaPc' = "save"
                              /\ fofaPage' = fofaPage
                         ELSE /\ fofaPc' = "loop"
                              /\ fofaPage' = fofaPage + 1
    /\ UNCHANGED <<fsVars, fofaCfg, fofaSrv, fofaTotalPages, fofaOut, outsideFofa>>

\* collect, lines 368-380: the result file is written (a failure to write is
\* logged) and the domains are returned
FofaSave ==
    /\ fofaPc = "save"
    /\ \/ fs' = WriteDomains(fs, cfg.FOFA_OUTPUT_FILE, fofaDomains)
       \/ fs' = fs
    /\ fofaOut' = [returned |-> TRUE, raised |-> FALSE, domains |-> fofaDomains]
    /\ fofaPc' = "done"
    /\ UNCHANGED <<clock, cfg, cacheSnap, fofaCfg, fofaCooldown, fofaSrv, fofaPage,
                   fofaAttempt, fofaLog, fofaTotalPages, fofaDomains, fofaRateLimit,
                   outsideFofa>>

\* the total result count the API can report for what it holds: none, the
\* count, a page more, more than any page cap
ReportedSizes(full, last) ==
    {0, full * FOFA_PAGE_SIZE + last, (full + 1) * FOFA_PAGE_SIZE + last,
     (MaxMaxPages + 2) * FOFA_PAGE_SIZE}

\* a FofaCollector facing some API
InitFofa ==
    /\ fs = EmptyFs
    /\ clock = 0
    /\ cfg = ConfigDefaults
    /\ cacheSnap = NoSnap
    /\ cmpFiles = NoHandler
    /\ cmpResult = NoResult
    /\ AllIdle
    /\ ColIdle
    /\ BfIdle
    /\ fofaPc = "start"
    /\ \E key \in {"", "key"}, max_pages \in 1..MaxMaxPages,
          retry_count \in {0, FOFA_RETRY_COUNT}, retry_delay \in RetryDelays :
          fofaCfg = [api_key |-> key, max_pages |-> max_pages,
                     retry_count |-> retry_count, retry_delay |-> retry_delay]
    /\ fofaCooldown = NoCooldown
    /\ \E full \in 0..MaxFull, last \in {0, 1} :
          \E size \in ReportedSizes(full, last),
             items \in SubsetsUpTo(FofaItems, MaxResp) :
             fofaSrv = [full |-> full, last |-> last, size |-> size, items |-> items]
    /\ fofaPage = 0
    /\ fofaAttempt = 0
    /\ fofaLog = <<>>
    /\ fofaTotalPages = 0
    /\ fofaDomains = {}
    /\ fofaRateLimit = 0
    /\ fofaOut = NoFofaOutput
    /\ HistIdle
    /\ RunIdle
    /\ StoreIdle
    /\ DictIdle
    /\ AliveIdle
    /\ TxtIdle
    /\ SeqIdle
    /\ BoIdle
    /\ ExIdle
    /\ PgIdle
    /\ CaIdle
    /\ CbIdle
    /\ RcIdle

NextFofa ==
    \/ FofaStart
    \/ FofaGetTotalPages
    \/ FofaLoopPage
    \/ FofaSave

SpecFofa == InitFofa /\ [][NextFofa]_vars

\* C29: a 429 response increments rate_limit_count, and _fetch_page sleeps
\* min(retry_delay * 2^rate_limit_count, 300) seconds before it returns, so
\* before any further request; the sleep is never longer than 300 seconds,
\* and rate_limit_count is never negative
C29_CooldownAfter429 ==
    [][Len(fofaLog') = Len(fofaLog) + 1 =>
          /\ fofaCooldown'.limited =>
                /\ fofaRateLimit' = fofaRateLimit + 1
                /\ fofaCooldown'.slept =
                      Min(fofaCfg.retry_delay * 2 ^ fofaRateLimit', 300)
          /\ ~fofaCooldown'.limited => fofaCooldown'.slept = 0
          /\ fofaCooldown'.slept <= 300
          /\ fofaRateLimit' >= 0]_vars

C29_Witness ==
    /\ fofaCooldown.limited
    /\ fofaCooldown.slept = 300
    /\ fofaRateLimit = 1
    /\ Len(fofaLog) >= 3

\* C4: when the API holds page_size records on pages 1..k and none on page
\* k+1, and max_pages is greater than k+1, a collect() run that meets no
\* failure fetches exactly the pages 1, 2, ..., k+1 and stops.
C4_FetchesKPlusOnePages ==
    (/\ fofaPc = "done"
     /\ HasApiKey(fofaCfg)
     /\ fofaSrv.last = 0
     /\ fofaCfg.max_pages > fofaSrv.full + 1
     /\ \A i \in DOMAIN fofaLog : ~fofaLog[i].failed) =>
        /\ Len(fofaLog) = fofaSrv.full + 1
        /\ \A i \in DOMAIN fofaLog : fofaLog[i].page = i

\* C5: a failed request for a page is followed by another request for the
\* same page, as long as fewer than retry_count retries have been made.
C5_FailedRequestIsRetried ==
    \A i \in DOMAIN fofaLog :
        (fofaLog[i].failed /\ fofaLog[i].attempt < fofaCfg.retry_count) =>
            IF i < Len(fofaLog)
            THEN /\ fofaLog[i + 1].page = fofaLog[i].page
                 /\ fofaLog[i + 1].attempt = fofaLog[i].attempt + 1
            ELSE /\ fofaPc \in {"total_pages", "loop"}
                 /\ fofaPage = fofaLog[i].page
                 /\ fofaAttempt = fofaLog[i].attempt + 1

\* C6: a failure on page p of the loop is not terminal: when collect() has
\* returned, every page after p up to the page cap total_pages was requested,
\* unless a page answered without error and with zero results.
C6_FailedPageNotTerminal ==
    fofaPc = "done" =>
        \A i \in DOMAIN fofaLog :
            (/\ fofaLog[i].phase = "loop"
             /\ fofaLog[i].failed
             /\ fofaLog[i].page < fofaTotalPages) =>
                \/ \E j \in DOMAIN fofaLog : /\ j > i
                                             /\ fofaLog[j].page = fofaLog[i].page + 1
                \/ \E j \in DOMAIN fofaLog :
                      /\ ~fofaLog[j].failed
                      /\ ServerRecords(fofaSrv, fofaLog[j].page) = 0

\* C7: no request is for a page beyond max_pages, whatever total the API
\* reports, and the number of requests of a run is bounded by
\* (max_pages + 1) * (retry_count + 1).
C7_PageCap ==
    /\ \A i \in DOMAIN fofaLog : fofaLog[i].page <= fofaCfg.max_pages
    /\ Len(fofaLog) <= (fofaCfg.max_pages + 1) * (fofaCfg.retry_count + 1)

\* the API reported more pages than max_pages and the run stopped at the cap
C7_Witness ==
    /\ fofaPc = "done"
    /\ TotalPages(fofaSrv.size, FOFA_PAGE_SIZE) > fofaCfg.max_pages
    /\ fofaCfg.max_pages = 2
    /\ fofaTotalPages = 2
    /\ Len(fofaLog) = 3
    /\ fofaLog[3].page = 2
    /\ ~fofaLog[3].failed
    /\ ServerRecords(fofaSrv, 3) > 0

\* C8: without an API key collect() returns the empty set at once: no
\* request is issued, nothing is raised, no other step of collect is taken.
C8_NoApiKey ==
    fofaCfg.api_key = "" =>
        /\ fofaLog = <<>>
        /\ fofaPc \in {"idle", "start", "done"}
        /\ ~fofaOut.raised
        /\ fofaPc = "done" => (fofaOut.returned /\ fofaOut.domains = {})

\* collect() has returned for a collector without a key, facing an API that
\* holds results
C8_Witness ==
    /\ fofaPc = "done"
    /\ fofaCfg.api_key = ""
    /\ fofaOut.returned
    /\ fofaSrv.full > 0
    /\ fofaSrv.size > 0
    /\ fofaSrv.items # {}

----------------------------------------------------------------------------
(* SmartBruteForcer (core/bruteforcer.py) *)

MaxTargetRate == 1  \* the configured rate_limit, requests per second
MaxWords == 85      \* words of the dictionary
RateGrain == 1      \* rates are kept to 1/(100 * RateGrain) of a request/second

\* the floating-point rates are rounded to multiples of 1/RateScale
RateScale == 100 * RateGrain

\* the thresholds of check_subdomain
SUCCESSES_BEFORE_INCREASE == 10
TIMEOUTS_BEFORE_DECREASE == 3

\* _target_rate * 2 and _target_rate * 0.1
RateCeiling(target) == target * 2
RateFloor(target) == target \div 10

\* _increase_rate: min(_current_rate * 1.1, _target_rate * 2) below the ceiling
IncreaseRate(current, target) ==
    IF current < RateCeiling(target)
    THEN Min((current * 11) \div 10, RateCeiling(target))
    ELSE current

\* _decrease_rate: max(_current_rate * 0.8, _target_rate * 0.1) above the floor
DecreaseRate_NoFloor(current, target) == (current * 8) \div 10
DecreaseRate(current, target) ==
    IF current > RateFloor(target)
    THEN Max((current * 8) \div 10, RateFloor(target))
    ELSE current

\* a word of the dictionary is left to check
WordLeft == bf.success_count + bf.fail_count < MaxWords

\* check_subdomain, lines 116-138: the fields after the query returned an answer
AfterSuccess(b) ==
    LET adjust == /\ b.smart_adjust
                  /\ b.consecutive_successes + 1 >= SUCCESSES_BEFORE_INCREASE
    IN  [b EXCEPT
           !.consecutive_successes = IF adjust THEN 0 ELSE @ + 1,
           !.consecutive_timeouts = 0,
           !.success_count = @ + 1,
           !.current_rate = IF adjust THEN IncreaseRate(@, b.target_rate) ELSE @]

\* check_subdomain, lines 140-158: the fields after a DNSError whose text
\* holds "timed out"
AfterTimeout_KeepsSuccesses(b) ==
    LET adjust == /\ b.smart_adjust
                  /\ b.consecutive_timeouts + 1 >= TIMEOUTS_BEFORE_DECREASE
    IN  [b EXCEPT
           !.consecutive_timeouts = IF adjust THEN 0 ELSE @ + 1,
           !.fail_count = @ + 1,
           !.current_rate = IF adjust THEN DecreaseRate(@, b.target_rate) ELSE @]
AfterTimeout(b) ==
    LET adjust == /\ b.smart_adjust
                  /\ b.consecutive_timeouts + 1 >= TIMEOUTS_BEFORE_DECREASE
    IN  [b EXCEPT
           !.consecutive_timeouts = IF adjust THEN 0 ELSE @ + 1,
           !.consecutive_successes = 0,
           !.fail_count = @ + 1,
           !.current_rate = IF adjust THEN DecreaseRate(@, b.target_rate) ELSE @]

\* check_subdomain, lines 153-158: the fields after any other DNSError (the
\* name does not exist)
AfterNoSuchName(b) == [b EXCEPT !.consecutive_timeouts = 0, !.fail_count = @ + 1]

\* check_subdomain, lines 160-163: the fields after any other exception
AfterFailure(b) == [b EXCEPT !.fail_count = @ + 1]

\* check_subdomain, lines 116-138: the query returned an answer
LookupSucceeded ==
    /\ WordLeft
    /\ bf' = AfterSuccess(bf)
    /\ UNCHANGED outsideBrute

\* check_subdomain, lines 140-158: DNSError whose text holds "timed out"
LookupTimedOut ==
    /\ WordLeft
    /\ bf' = AfterTimeout(bf)
    /\ UNCHANGED outsideBrute

\* check_subdomain, lines 153-158: any other DNSError (the name does not exist)
LookupNoSuchName ==
    /\ WordLeft
    /\ bf' = AfterNoSuchName(bf)
    /\ UNCHANGED outsideBrute

\* check_subdomain, lines 160-163: any other exception
LookupFailed ==
    /\ WordLeft
    /\ bf' = AfterFailure(bf)
    /\ UNCHANGED outsideBrute

\* a SmartBruteForcer built with some rate_limit, smart or not
InitBrute ==
    /\ fs = EmptyFs
    /\ clock = 0
    /\ cfg = ConfigDefaults
    /\ cacheSnap = NoSnap
    /\ cmpFiles = NoHandler
    /\ cmpResult = NoResult
    /\ AllIdle
    /\ ColIdle
    /\ FofaIdle
    /\ \E rate_limit \in 1..MaxTargetRate, smart_adjust \in BOOLEAN :
          bf = NewSmartBruteForcer(rate_limit * RateScale, smart_adjust)
    /\ HistIdle
    /\ RunIdle
    /\ StoreIdle
    /\ DictIdle
    /\ AliveIdle
    /\ TxtIdle
    /\ SeqIdle
    /\ BoIdle
    /\ ExIdle
    /\ PgIdle
    /\ CaIdle
    /\ CbIdle
    /\ RcIdle

NextBrute ==
    \/ LookupSucceeded
    \/ LookupTimedOut
    \/ LookupNoSuchName
    \/ LookupFailed

SpecBrute == InitBrute /\ [][NextBrute]_vars

\* C10: the current rate always lies between 0.1 and 2 times the target
\* rate; an adjustment after consecutive timeouts strictly lowers it unless
\* it is at the lower bound, and an adjustment after consecutive successes
\* strictly raises it unless it is at the upper bound.
C10_RateBounds ==
    /\ [](/\ 10 * bf.current_rate >= bf.target_rate
          /\ bf.current_rate <= 2 * bf.target_rate)
    /\ [][/\ (/\ LookupTimedOut
              /\ bf.smart_adjust
              /\ bf.consecutive_timeouts + 1 >= TIMEOUTS_BEFORE_DECREASE) =>
                 IF 10 * bf.current_rate > bf.target_rate
                 THEN bf'.current_rate < bf.current_rate
                 ELSE bf'.current_rate = bf.current_rate
          /\ (/\ LookupSucceeded
              /\ bf.smart_adjust
              /\ bf.consecutive_successes + 1 >= SUCCESSES_BEFORE_INCREASE) =>
                 IF bf.current_rate < 2 * bf.target_rate
                 THEN bf'.current_rate > bf.current_rate
                 ELSE bf'.current_rate = bf.current_rate]_vars

\* the rate has been lowered to the lower bound and raised again since
C10_Witness ==
    /\ bf.smart_adjust
    /\ bf.fail_count >= 33
    /\ bf.success_count >= 10
    /\ 10 * bf.current_rate > bf.target_rate
    /\ bf.current_rate < bf.target_rate \div 8

\* C30: a lookup that fails with a "does not exist" DNS error leaves the
\* current rate, the consecutive-success counter and the
\* consecutive-timeout counter unchanged
C30_NoSuchNameLeavesRateState ==
    [][LookupNoSuchName =>
          /\ bf'.current_rate = bf.current_rate
          /\ bf'.consecutive_successes = bf.consecutive_successes
          /\ bf'.consecutive_timeouts = bf.consecutive_timeouts]_vars

\* C13: with smart adjust on, a timeout raises the consecutive-timeout
\* counter by one and sets the consecutive-success counter to 0; the third
\* consecutive timeout sets the rate to max(0.8 * rate, 0.1 * target_rate)
\* and the timeout counter to 0; no other step lowers the rate.
C13_TimeoutHandling ==
    [][bf.smart_adjust =>
         /\ LookupTimedOut =>
               /\ bf'.consecutive_successes = 0
               /\ IF bf.consecutive_timeouts + 1 < 3
                  THEN /\ bf'.consecutive_timeouts = bf.consecutive_timeouts + 1
                       /\ bf'.current_rate = bf.current_rate
                  ELSE /\ bf'.consecutive_timeouts = 0
                       /\ bf'.current_rate =
                             Max((bf.current_rate * 8) \div 10, bf.target_rate \div 10)
         /\ bf'.current_rate < bf.current_rate =>
               /\ LookupTimedOut
               /\ bf.consecutive_timeouts = 2]_vars

\* three timeouts in a row, after some successes, have lowered the rate to
\* 0.8 of the target rate
C13_Witness ==
    /\ bf.smart_adjust
    /\ bf.success_count = 4
    /\ bf.fail_count = 3
    /\ bf.consecutive_timeouts = 0
    /\ bf.consecutive_successes = 0
    /\ bf.current_rate = (bf.target_rate * 8) \div 10

----------------------------------------------------------------------------
(* The lookups of a SmartBruteForcer with their outcomes remembered *)

MaxStreakWords == 12    \* words of the dictionary

StreakWordLeft == bf.success_count + bf.fail_count < MaxStreakWords

\* check_subdomain returned (full_domain, True)
StreakSucceeded ==
    /\ StreakWordLeft
    /\ bf' = AfterSuccess(bf)
    /\ streak' = streak + 1
    /\ UNCHANGED outsideStreak

\* check_subdomain returned (full_domain, False) after a timeout
StreakTimedOut ==
    /\ StreakWordLeft
    /\ bf' = AfterTimeout(bf)
    /\ streak' = 0
    /\ UNCHANGED outsideStreak

\* check_subdomain returned (full_domain, False): the name does not exist
StreakNoSuchName ==
    /\ StreakWordLeft
    /\ bf' = AfterNoSuchName(bf)
    /\ streak' = 0
    /\ UNCHANGED outsideStreak

\* check_subdomain returned (full_domain, False) after another exception
StreakFailed ==
    /\ StreakWordLeft
    /\ bf' = AfterFailure(bf)
    /\ streak' = 0
    /\ UNCHANGED outsideStreak

InitStreak ==
    /\ fs = EmptyFs
    /\ clock = 0
    /\ cfg = ConfigDefaults
    /\ cacheSnap = NoSnap
    /\ cmpFiles = NoHandler
    /\ cmpResult = NoResult
    /\ AllIdle
    /\ ColIdle
    /\ FofaIdle
    /\ \E rate_limit \in 1..MaxTargetRate, smart_adjust \in BOOLEAN :
          bf = NewSmartBruteForcer(rate_limit * RateScale, smart_adjust)
    /\ streak = 0
    /\ RunIdle
    /\ StoreIdle
    /\ DictIdle
    /\ AliveIdle
    /\ TxtIdle
    /\ SeqIdle
    /\ BoIdle
    /\ ExIdle
    /\ PgIdle
    /\ CaIdle
    /\ CbIdle
    /\ RcIdle

NextStreak ==
    \/ StreakSucceeded
    \/ StreakTimedOut
    \/ StreakNoSuchName
    \/ StreakFailed

SpecStreak == InitStreak /\ [][NextStreak]_vars

\* C14: the rate is raised only by a lookup that completes a run of 10
\* successful lookups with no failed lookup in between, and the
\* consecutive-success counter is then 0.
C14_IncreaseAfterTenInARow ==
    [][bf'.current_rate > bf.current_rate =>
          /\ streak + 1 >= 10
          /\ bf'.consecutive_successes = 0]_vars

----------------------------------------------------------------------------
(* A brute-force run: SmartBruteForcer.brute_force behind DictBruteForcer.run
   (core/bruteforcer.py), and DictBuilder.brute_force_subdomains
   (cacher/dict_builder.py) *)

MaxRunLines == 3        \* lines of the dictionary file
MaxConcurrency == 2     \* the semaphore's size
WindowTicks == 1        \* ticks of the clock in _rate_window (1.0 second)
MaxNow == 1             \* ticks that pass during a run

REQUEST_TIMES_MAXLEN == 100

\* lines the dictionary file can hold: "w", "x", " y ", " ", ""
DictLines == {<<"w">>, <<"x">>, <<" ", "y", " ">>, <<" ">>, <<>>}

\* _load_dictionary and _load_dict_words: the stripped non-blank lines; a
\* missing or unreadable file gives no words
LoadWords(file) ==
    IF ~file.exists \/ ~file.readable
    THEN {}
    ELSE {Strip(line) : line \in {l \in file.lines : Strip(l) # <<>>}}

\* `if not self.dictionary`, `if not dict_words`
DictionaryEmpty_Ignored(words) == FALSE
DictionaryEmpty(words) == words = {}

\* f"{word}.{target_domain}"
FullDomain(word) == word \o <<".">> \o TARGET

\* a task of the run, before it has run
NewTask == [pc |-> "created", slot |-> FALSE, checked |-> FALSE, wake |-> 0,
            exists |-> FALSE]

\* the tasks inside `async with sem`
Holders(tasks) == {w \in DOMAIN tasks : tasks[w].slot}

\* the semaphore can be acquired
SlotFree == Cardinality(Holders(runTask)) < runCfg.concurrency

\* _limit_rate: the request times inside the window
RecentRequests(times, t) == {i \in DOMAIN times : times[i] > t - WindowTicks}

\* _limit_rate: len(recent_requests) >= self._current_rate
RateWindowFull(times, t, rate) ==
    /\ times # <<>>
    /\ Cardinality(RecentRequests(times, t)) * RateScale >= rate

\* _limit_rate: the time at which the sleep ends, oldest_in_window + window
WakeTime(times, t) ==
    WindowTicks +
    (CHOOSE m \in {times[i] : i \in RecentRequests(times, t)} :
        \A i \in RecentRequests(times, t) : m <= times[i])

\* deque(maxlen=100).append
AppendTime(times, t) ==
    IF Len(times) + 1 > REQUEST_TIMES_MAXLEN
    THEN Append(Tail(times), t)
    ELSE Append(times, t)

\* a DNS query, as issued
Query(word, task, t) ==
    [word |-> word, time |-> t, slot |-> task.slot, checked |-> task.checked]

\* DictBruteForcer.run / brute_force_subdomains up to the creation of the
\* tasks: an empty dictionary returns set(); SmartBruteForcer needs
\* Config.BRUTE_TIMEOUT and Config.SHOW_PROGRESS_BAR
RunStart ==
    /\ runPc = "start"
    /\ LET words == LoadWords(runDict)
       IN  IF DictionaryEmpty(words)
           THEN /\ runOut' = [NoRunOutput EXCEPT !.returned = TRUE]
                /\ runPc' = "done"
                /\ runTask' = runTask
           ELSE IF runCfg.engine = "SmartBruteForcer" /\ ~runCfg.brute_attrs
           THEN /\ runOut' = [NoRunOutput EXCEPT !.raised = TRUE]
                /\ runPc' = "done"
                /\ runTask' = runTask
           ELSE /\ runOut' = runOut
                /\ runPc' = "running"
                /\ runTask' = [w \in words |-> NewTask]
    /\ UNCHANGED <<fsVars, bfVars, runCfg, runDict, runResolver, runTimes, runIssued,
                   runNow, outsideRun>>

\* the task issues its DNS query: the time is appended to _request_times
\* (SmartBruteForcer only) and the query goes out
IssueQuery(w, task, pc) ==
    /\ runTask' = [runTask EXCEPT ![w] = [task EXCEPT !.pc = pc]]
    /\ runIssued' = Append(runIssued, Query(w, task, runNow))

\* check_with_limit and check_subdomain up to the first suspension: the
\* semaphore is acquired; the resolver is created if there is none (a
\* failure ends the check); _limit_rate either sleeps or lets the query out
SmartBegin(w) ==
    /\ runPc = "running"
    /\ runCfg.engine = "SmartBruteForcer"
    /\ runTask[w].pc = "created"
    /\ SlotFree
    /\ \/ /\ ~runResolver
          /\ runTask' = [runTask EXCEPT ![w] = [@ EXCEPT !.pc = "done"]]
          /\ UNCHANGED <<runResolver, runTimes, runIssued>>
       \/ /\ runResolver' = TRUE
          /\ IF RateWindowFull(runTimes, runNow, bf.current_rate)
             THEN /\ runTask' = [runTask EXCEPT ![w] =
                                    [@ EXCEPT !.pc = "sleeping", !.slot = TRUE,
                                              !.wake = WakeTime(runTimes, runNow)]]
                  /\ UNCHANGED <<runTimes, runIssued>>
             ELSE /\ runTimes' = AppendTime(runTimes, runNow)
                  /\ IssueQuery(w, [runTask[w] EXCEPT !.slot = TRUE, !.checked = TRUE],
                                "querying")
    /\ UNCHANGED <<fsVars, bfVars, runPc, runCfg, runDict, runNow, runOut, outsideRun>>

\* _limit_rate, lines 182-183, and check_subdomain, lines 108-118: the sleep
\* is over, the query goes out
SmartWake(w) ==
    /\ runPc = "running"
    /\ runTask[w].pc = "sleeping"
    /\ runNow >= runTask[w].wake
    /\ runTimes' = AppendTime(runTimes, runNow)
    /\ IssueQuery(w, [runTask[w] EXCEPT !.checked = TRUE], "querying")
    /\ UNCHANGED <<fsVars, bfVars, runPc, runCfg, runDict, runResolver, runNow, runOut,
                   outsideRun>>

\* check_subdomain, lines 116-163, and the rest of check_with_limit: the
\* query is over, the counters and the rate are adjusted, the slot is free
SmartComplete(w) ==
    /\ runPc = "running"
    /\ runCfg.engine = "SmartBruteForcer"
    /\ runTask[w].pc = "querying"
    /\ \E outcome \in {"success", "timeout", "no_such_name", "failure"} :
          /\ bf' = CASE outcome = "success" -> AfterSuccess(bf)
                     [] outcome = "timeout" -> AfterTimeout(bf)
                     [] outcome = "no_such_name" -> AfterNoSuchName(bf)
                     [] OTHER -> AfterFailure(bf)
          /\ runTask' = [runTask EXCEPT ![w] =
                            [@ EXCEPT !.pc = "done", !.slot = FALSE,
                                      !.exists = (outcome = "success")]]
    /\ UNCHANGED <<fsVars, runPc, runCfg, runDict, runResolver, runTimes, runIssued,
                   runNow, runOut, outsideRun>>

\* check_domain and _check_domain_exists: the semaphore is acquired and the
\* A query goes out
DictBegin(w) ==
    /\ runPc = "running"
    /\ runCfg.engine = "DictBuilder"
    /\ runTask[w].pc = "created"
    /\ SlotFree
    /\ IssueQuery(w, [runTask[w] EXCEPT !.slot = TRUE], "querying")
    /\ UNCHANGED <<fsVars, bfVars, runPc, runCfg, runDict, runResolver, runTimes,
                   runNow, runOut, outsideRun>>

\* _check_domain_exists, lines 145-148: the A query failed, the CNAME query
\* goes out
DictRetry(w) ==
    /\ runPc = "running"
    /\ runCfg.engine = "DictBuilder"
    /\ runTask[w].pc = "querying"
    /\ IssueQuery(w, runTask[w], "querying_cname")
    /\ UNCHANGED <<fsVars, bfVars, runPc, runCfg, runDict, runResolver, runTimes,
                   runNow, runOut, outsideRun>>

\* _check_domain_exists returns: a query resolved, or the CNAME query failed
DictComplete(w) ==
    /\ runPc = "running"
    /\ runCfg.engine = "DictBuilder"
    /\ \/ /\ runTask[w].pc \in {"querying", "querying_cname"}
          /\ runTask' = [runTask EXCEPT ![w] =
                            [@ EXCEPT !.pc = "done", !.slot = FALSE, !.exists = TRUE]]
       \/ /\ runTask[w].pc = "querying_cname"
          /\ runTask' = [runTask EXCEPT ![w] =
                            [@ EXCEPT !.pc = "done", !.slot = FALSE]]
    /\ UNCHANGED <<fsVars, bfVars, runPc, runCfg, runDict, runResolver, runTimes,
                   runIssued, runNow, runOut, outsideRun>>

\* time passes
RunTick ==
    /\ runPc = "running"
    /\ runNow < MaxNow
    /\ runNow' = runNow + 1
    /\ UNCHANGED <<fsVars, bfVars, runPc, runCfg, runDict, runResolver, runTask,
                   runTimes, runIssued, runOut, outsideRun>>

\* the names found by the tasks
FoundDomains(tasks) == {FullDomain(w) : w \in {x \in DOMAIN tasks : tasks[x].exists}}

\* brute_force, lines 298-323 (the result goes to output/brute_results.txt),
\* and brute_force_subdomains, lines 195-211 (to Config.BRUTE_OUTPUT_FILE):
\* every task is over, a result that is not empty is saved (a failure to
\* save is logged), and the names found are returned
RunFinish ==
    /\ runPc = "running"
    /\ \A w \in DOMAIN runTask : runTask[w].pc = "done"
    /\ LET found == FoundDomains(runTask)
       IN  IF runCfg.engine = "SmartBruteForcer"
           THEN /\ \E file \in {IF found # {} THEN File(found) ELSE NoFile, NoFile} :
                      runOut' = [returned |-> TRUE, raised |-> FALSE, found |-> found,
                                 file |-> file]
                /\ fs' = fs
           ELSE /\ runOut' = [returned |-> TRUE, raised |-> FALSE, found |-> found,
                              file |-> NoFile]
                /\ fs' \in {BruteForceWrites(fs, cfg, found), fs}
    /\ runPc' = "done"
    /\ UNCHANGED <<clock, cfg, cacheSnap, bfVars, runCfg, runDict, runResolver, runTask,
                   runTimes, runIssued, runNow, outsideRun>>

\* the dictionary files of the model
DictFiles ==
    {DictFile(FALSE, FALSE, {}), DictFile(TRUE, FALSE, {})}
    \cup {DictFile(TRUE, TRUE, lines) : lines \in SubsetsUpTo(DictLines, MaxRunLines)}

\* a DictBruteForcer (core/bruteforcer.py) built with a rate and the smart
\* switch, or a DictBuilder, facing some dictionary file
InitRun ==
    /\ fs = EmptyFs
    /\ clock = 0
    /\ cfg = ConfigDefaults
    /\ cacheSnap = NoSnap
    /\ cmpFiles = NoHandler
    /\ cmpResult = NoResult
    /\ AllIdle
    /\ ColIdle
    /\ FofaIdle
    /\ HistIdle
    /\ runPc = "start"
    /\ \E engine \in {"SmartBruteForcer", "DictBuilder"},
          concurrency \in 1..MaxConcurrency, brute_attrs \in BOOLEAN :
          /\ runCfg = [engine |-> engine, concurrency |-> concurrency,
                       brute_attrs |-> brute_attrs]
          /\ IF engine = "SmartBruteForcer"
             THEN \E rate_limit \in 1..MaxTargetRate, smart_adjust \in BOOLEAN :
                     bf = NewSmartBruteForcer(rate_limit * RateScale, smart_adjust)
             ELSE BfIdle
    /\ runDict \in DictFiles
    /\ runResolver = FALSE
    /\ runTask = <<>>
    /\ runTimes = <<>>
    /\ runIssued = <<>>
    /\ runNow = 0
    /\ runOut = NoRunOutput
    /\ StoreIdle
    /\ DictIdle
    /\ AliveIdle
    /\ TxtIdle
    /\ SeqIdle
    /\ BoIdle
    /\ ExIdle
    /\ PgIdle
    /\ CaIdle
    /\ CbIdle
    /\ RcIdle

NextRun ==
    \/ RunStart
    \/ \E w \in DOMAIN runTask : SmartBegin(w)
    \/ \E w \in DOMAIN runTask : SmartWake(w)
    \/ \E w \in DOMAIN runTask : SmartComplete(w)
    \/ \E w \in DOMAIN runTask : DictBegin(w)
    \/ \E w \in DOMAIN runTask : DictRetry(w)
    \/ \E w \in DOMAIN runTask : DictComplete(w)
    \/ RunTick
    \/ RunFinish

SpecRun == InitRun /\ [][NextRun]_vars

\* the queries issued inside the trailing window
QueriesInWindow == {i \in DOMAIN runIssued : runIssued[i].time > runNow - WindowTicks}

C12_SlotAndRateCheck ==
    /\ Cardinality(Holders(runTask)) <= runCfg.concurrency
    /\ \A i \in DOMAIN runIssued : runIssued[i].slot /\ runIssued[i].checked

\* C15: with a dictionary that is missing, unreadable or without words, the
\* run issues no DNS query, does not raise, and ends by returning the empty set
C15_EmptyDictionary ==
    LoadWords(runDict) = {} =>
        /\ runPc \in {"start", "done"}
        /\ runIssued = <<>>
        /\ ~runOut.raised
        /\ runPc = "done" => runOut.returned /\ runOut.found = {}

C15_Witness ==
    /\ runPc = "done"
    /\ runOut.returned
    /\ runOut.found = {}
    /\ runIssued = <<>>
    /\ runDict.exists /\ runDict.readable
    /\ runDict.lines = {<<" ">>, <<>>}
    /\ runCfg.engine = "SmartBruteForcer"
    /\ ~runCfg.brute_attrs

----------------------------------------------------------------------------
(* CacheManager over its directory of snapshot files (cacher/manager.py) *)

MaxFiles == 2           \* snapshot files in the cache directory
MaxDamages == 1         \* snapshot files damaged during a run

SECONDS_PER_DAY == 86400

\* max_age = Config.CACHE_EXPIRE_DAYS * 86400
MaxAge == CACHE_EXPIRE_DAYS * SECONDS_PER_DAY

\* time.time() when the model starts: more than max_age after the epoch
StartTime == 2 * MaxAge

\* the moments of the model: a second apart, and max_age apart
TimePoints == {StartTime, StartTime + 1, StartTime + MaxAge, StartTime + MaxAge + 1}

\* what save_domains_to_cache can be given: deep_domains, fofa_domains
SavedPairs == {<<{Sub("a"), Sub("b")}, {Sub("c")}>>, <<{Sub("c")}, {}>>}

\* list(a_set): the elements once each, in some order
RECURSIVE Enumerations(_)
Enumerations(S) ==
    IF S = {}
    THEN {<<>>}
    ELSE UNION {{<<x>> \o q : q \in Enumerations(S \ {x})} : x \in S}

\* set(a_list)
ToSet(q) == {q[i] : i \in DOMAIN q}

\* the file json.dump(cache_data, f) leaves: an object with the timestamp and
\* the two lists
Snapshot(timestamp, deep_list, fofa_list, mtime) ==
    [kind |-> "object", has_timestamp |-> TRUE, timestamp |-> timestamp,
     deep_domains |-> deep_list, fofa_domains |-> fofa_list, mtime |-> mtime]

\* a file cut short while it was written
Truncated(mtime) ==
    [kind |-> "not_json", has_timestamp |-> FALSE, timestamp |-> 0,
     deep_domains |-> <<>>, fofa_domains |-> <<>>, mtime |-> mtime]

\* what can happen to a snapshot file from outside: its text is no JSON, its
\* bytes are no UTF-8, its JSON is no object, it cannot be opened, or the
\* object has no 'timestamp'
DamageKinds == {"not_json", "not_utf8", "not_object", "unreadable", "no_timestamp"}
Damaged(file, kind, mtime) ==
    IF kind = "no_timestamp"
    THEN [file EXCEPT !.has_timestamp = FALSE, !.timestamp = 0, !.mtime = mtime]
    ELSE [file EXCEPT !.kind = kind]

\* _get_cache_path: the name holds the time at 1-second resolution
GetCachePath(t) == t

PutFile(dir, name, file) ==
    [n \in DOMAIN dir \cup {name} |-> IF n = name THEN file ELSE dir[n]]
RemoveFile(dir, name) == [n \in DOMAIN dir \ {name} |-> dir[n]]

\* files.sort(key=safe_get_timestamp, reverse=True): by the time in the
\* name, newest first
RECURSIVE SortOldestFirst(_)
SortOldestFirst(names) ==
    IF names = {}
    THEN <<>>
    ELSE LET first == CHOOSE n \in names : \A m \in names : n <= m
         IN  <<first>> \o SortOldestFirst(names \ {first})
RECURSIVE SortNewestFirst(_)
SortNewestFirst(names) ==
    IF names = {}
    THEN <<>>
    ELSE LET first == CHOOSE n \in names : \A m \in names : m <= n
         IN  <<first>> \o SortNewestFirst(names \ {first})

\* _get_cache_files: the names of the domain's files, newest first
GetCacheFiles_OldestFirst(dir) == SortOldestFirst(DOMAIN dir)
GetCacheFiles(dir) == SortNewestFirst(DOMAIN dir)

\* open(), json.load() and cache_data.get(): "ok", or the exception raised
ReadOutcome(file) ==
    CASE file.kind = "unreadable" -> "IOError"
      [] file.kind = "not_utf8" -> "UnicodeDecodeError"
      [] file.kind = "not_json" -> "JSONDecodeError"
      [] file.kind = "not_object" -> "AttributeError"
      [] OTHER -> "ok"

\* cache_data.get('timestamp', 0)
TimestampOf(file) == IF file.has_timestamp THEN file.timestamp ELSE 0

\* current_time - timestamp > max_age
Expired_AtLimit(t, timestamp) == t - timestamp >= MaxAge
Expired(t, timestamp) == t - timestamp > MaxAge

\* `except Exception` of has_valid_cache and get_cached_domains
ReadCatches_OnlyJson(exception) == exception = "JSONDecodeError"
ReadCatches(exception) == TRUE

\* `except (json.JSONDecodeError, IOError, OSError)` of clean_expired_cache
CleanCatches(exception) == exception \in {"JSONDecodeError", "IOError"}

\* has_valid_cache
HasValidCacheFile(c, dir, t) ==
    IF c.DISABLE_CACHE \/ GetCacheFiles(dir) = <<>>
    THEN [raised |-> FALSE, valid |-> FALSE]
    ELSE LET file == dir[GetCacheFiles(dir)[1]]
         IN  IF ReadOutcome(file) # "ok"
             THEN [raised |-> ~ReadCatches(ReadOutcome(file)), valid |-> FALSE]
             ELSE [raised |-> FALSE, valid |-> ~Expired(t, TimestampOf(file))]

\* get_cached_domains
GetCachedDomainsFile(c, dir, t) ==
    LET v == HasValidCacheFile(c, dir, t)
        none == [raised |-> v.raised, valid |-> FALSE, deep |-> {}, fofa |-> {}]
    IN  IF v.raised \/ ~v.valid \/ GetCacheFiles(dir) = <<>>
        THEN none
        ELSE LET file == dir[GetCacheFiles(dir)[1]]
             IN  IF ReadOutcome(file) # "ok"
                 THEN [none EXCEPT !.raised = ~ReadCatches(ReadOutcome(file))]
                 ELSE [raised |-> FALSE, valid |-> TRUE,
                       deep |-> ToSet(file.deep_domains),
                       fofa |-> ToSet(file.fofa_domains)]

\* os.remove, which may raise OSError
Remove(removable, dir, name) == IF removable THEN RemoveFile(dir, name) ELSE dir

\* clean_expired_cache, the loop from the i-th file of glob's list on: a file
\* whose reading raises what the inner handler catches is removed, any other
\* exception ends the loop in the outer handler; a file read is removed when
\* it is expired by its timestamp, or by its mtime if the timestamp is 0
RECURSIVE Sweep(_, _, _, _, _)
Sweep(removable, dir, order, i, t) ==
    IF i > Len(order)
    THEN dir
    ELSE LET name == order[i]
             file == dir[name]
             timestamp == IF TimestampOf(file) = 0 THEN file.mtime ELSE TimestampOf(file)
         IN  IF ReadOutcome(file) # "ok"
             THEN IF CleanCatches(ReadOutcome(file))
                  THEN Sweep(removable, Remove(removable, dir, name), order, i + 1, t)
                  ELSE dir
             ELSE IF Expired(t, timestamp)
                  THEN Sweep(removable, Remove(removable, dir, name), order, i + 1, t)
                  ELSE Sweep(removable, dir, order, i + 1, t)

\* clean_expired_cache; auto_clean is Config.AUTO_CLEAN_CACHE
CleanExpiredCacheFiles(auto_clean, removable, dir, order, t) ==
    IF ~auto_clean THEN dir ELSE Sweep(removable, dir, order, 1, t)

\* a call of has_valid_cache
CheckCache ==
    /\ LET v == HasValidCacheFile(cacheCfg, cacheDir, cacheNow)
       IN  cacheRes' = [op |-> "has_valid_cache", raised |-> v.raised,
                        valid |-> v.valid, deep |-> {}, fofa |-> {}]
    /\ UNCHANGED <<cacheDir, cacheNow, cacheCfg, cacheLast, cacheDamages, outsideStore>>

\* a call of get_cached_domains
ReadCache ==
    /\ LET g == GetCachedDomainsFile(cacheCfg, cacheDir, cacheNow)
       IN  cacheRes' = [op |-> "get_cached_domains", raised |-> g.raised,
                        valid |-> g.valid, deep |-> g.deep, fofa |-> g.fofa]
    /\ UNCHANGED <<cacheDir, cacheNow, cacheCfg, cacheLast, cacheDamages, outsideStore>>

\* the directory has room for a file of this name
RoomFor(dir, name) == Cardinality(DOMAIN dir \cup {name}) <= MaxFiles

\* a call of save_domains_to_cache that writes its file (or returns at once,
\* the cache being disabled)
SaveSucceeded ==
    /\ RoomFor(cacheDir, GetCachePath(cacheNow))
    /\ \E pair \in SavedPairs :
          IF cacheCfg.DISABLE_CACHE
          THEN UNCHANGED <<cacheDir, cacheLast>>
          ELSE /\ \E deep_list \in Enumerations(pair[1]),
                     fofa_list \in Enumerations(pair[2]) :
                     cacheDir' = PutFile(cacheDir, GetCachePath(cacheNow),
                                         Snapshot(cacheNow, deep_list, fofa_list, cacheNow))
               /\ cacheLast' = [cacheLast EXCEPT !.saved = TRUE, !.deep = pair[1],
                                                 !.fofa = pair[2]]
    /\ cacheRes' = NoCall
    /\ UNCHANGED <<cacheNow, cacheCfg, cacheDamages, outsideStore>>

\* a call of save_domains_to_cache whose open() or json.dump() raises: the
\* exception is logged, the file is as it was or is cut short
SaveFailed ==
    /\ RoomFor(cacheDir, GetCachePath(cacheNow))
    /\ ~cacheCfg.DISABLE_CACHE
    /\ \/ UNCHANGED <<cacheDir, cacheLast, cacheDamages>>
       \/ /\ cacheDamages < MaxDamages
          /\ cacheDir' = PutFile(cacheDir, GetCachePath(cacheNow), Truncated(cacheNow))
          /\ cacheLast' = [cacheLast EXCEPT !.intact = FALSE]
          /\ cacheDamages' = cacheDamages + 1
    /\ cacheRes' = NoCall
    /\ UNCHANGED <<cacheNow, cacheCfg, outsideStore>>

\* a call of clean_expired_cache; glob lists the files in some order
CleanCacheWith(auto_clean, removable) ==
    /\ \E order \in Enumerations(DOMAIN cacheDir) :
          cacheDir' = CleanExpiredCacheFiles(auto_clean, removable, cacheDir, order,
                                             cacheNow)
    /\ cacheRes' = NoCall
    /\ UNCHANGED <<cacheNow, cacheCfg, cacheLast, cacheDamages, outsideStore>>

CleanCache == \E auto_clean \in BOOLEAN, removable \in BOOLEAN :
                 CleanCacheWith(auto_clean, removable)

\* a snapshot file is damaged from outside the program
DamageFile ==
    /\ cacheDamages < MaxDamages
    /\ \E name \in DOMAIN cacheDir, kind \in DamageKinds :
          /\ cacheDir[name].kind = "object"
          /\ cacheDir[name].has_timestamp
          /\ cacheDir' = [cacheDir EXCEPT ![name] = Damaged(@, kind, cacheNow)]
    /\ cacheLast' = [cacheLast EXCEPT !.intact = FALSE]
    /\ cacheDamages' = cacheDamages + 1
    /\ cacheRes' = NoCall
    /\ UNCHANGED <<cacheNow, cacheCfg, outsideStore>>

\* time passes
StoreTick ==
    /\ \E t \in TimePoints :
          /\ t > cacheNow
          /\ cacheNow' = t
    /\ cacheRes' = NoCall
    /\ UNCHANGED <<cacheDir, cacheCfg, cacheLast, cacheDamages, outsideStore>>

\* CacheManager.__init__ over an empty cache directory, with some settings
InitStore ==
    /\ fs = EmptyFs
    /\ clock = 0
    /\ cfg = ConfigDefaults
    /\ cacheSnap = NoSnap
    /\ cmpFiles = NoHandler
    /\ cmpResult = NoResult
    /\ AllIdle
    /\ ColIdle
    /\ FofaIdle
    /\ BfIdle
    /\ HistIdle
    /\ RunIdle
    /\ cacheDir = <<>>
    /\ cacheNow = StartTime
    /\ cacheCfg \in [DISABLE_CACHE : BOOLEAN]
    /\ cacheRes = NoCall
    /\ cacheLast = NoSaves
    /\ cacheDamages = 0
    /\ DictIdle
    /\ AliveIdle
    /\ TxtIdle
    /\ SeqIdle
    /\ BoIdle
    /\ ExIdle
    /\ PgIdle
    /\ CaIdle
    /\ CbIdle
    /\ RcIdle

NextStore ==
    \/ CheckCache
    \/ ReadCache
    \/ SaveSucceeded
    \/ SaveFailed
    \/ CleanCache
    \/ DamageFile
    \/ StoreTick

SpecStore == InitStore /\ [][NextStore]_vars

\* the file of the newest name
NewestFile(dir) == dir[CHOOSE n \in DOMAIN dir : \A m \in DOMAIN dir : m <= n]

\* a file that is corrupt or unreadable
Corrupt(file) == file.kind \in {"not_json", "not_utf8", "not_object", "unreadable"}

\* a snapshot that can be parsed and tells its time
Dated(file) == file.kind = "object" /\ file.has_timestamp

\* C16: has_valid_cache returns true exactly when the cache is enabled, a
\* snapshot exists, the newest snapshot is parseable and
\* now - timestamp <= expiry_days * 86400; a snapshot aged one second less
\* than that is valid, one aged one second more is not
C16_ValidExactlyWhenFresh ==
    [][(cacheRes'.op = "has_valid_cache" /\ CheckCache) =>
          /\ cacheRes'.valid =
                /\ ~cacheCfg.DISABLE_CACHE
                /\ DOMAIN cacheDir # {}
                /\ Dated(NewestFile(cacheDir))
                /\ cacheNow - NewestFile(cacheDir).timestamp <= CACHE_EXPIRE_DAYS * 86400
          /\ (/\ ~cacheCfg.DISABLE_CACHE
              /\ DOMAIN cacheDir # {}
              /\ Dated(NewestFile(cacheDir))) =>
                /\ cacheNow - NewestFile(cacheDir).timestamp = CACHE_EXPIRE_DAYS * 86400 - 1
                      => cacheRes'.valid
                /\ cacheNow - NewestFile(cacheDir).timestamp = CACHE_EXPIRE_DAYS * 86400 + 1
                      => ~cacheRes'.valid]_vars

C16_Witness ==
    /\ cacheRes.op = "has_valid_cache"
    /\ cacheRes.valid
    /\ DOMAIN cacheDir # {}
    /\ Dated(NewestFile(cacheDir))
    /\ cacheNow - NewestFile(cacheDir).timestamp = CACHE_EXPIRE_DAYS * 86400 - 1

\* C17: a successful save (cache enabled) adds one new snapshot file and
\* leaves every earlier snapshot file present, its content unchanged
C17_SaveAddsAFile ==
    [][(SaveSucceeded /\ ~cacheCfg.DISABLE_CACHE) =>
          /\ Cardinality(DOMAIN cacheDir') = Cardinality(DOMAIN cacheDir) + 1
          /\ \A n \in DOMAIN cacheDir :
                n \in DOMAIN cacheDir' /\ cacheDir'[n] = cacheDir[n]]_vars

\* C18: after successful saves only, with the cache enabled and the newest
\* snapshot within the expiry window, get_cached_domains returns the deep and
\* fofa sets given to the most recent save
C18_ReadsLastSave ==
    [][(/\ cacheRes'.op = "get_cached_domains"
        /\ ~cacheCfg.DISABLE_CACHE
        /\ cacheLast.saved
        /\ cacheLast.intact
        /\ DOMAIN cacheDir # {}
        /\ cacheNow - NewestFile(cacheDir).timestamp <= CACHE_EXPIRE_DAYS * 86400
        /\ ReadCache) =>
          /\ cacheRes'.deep = cacheLast.deep
          /\ cacheRes'.fofa = cacheLast.fofa]_vars

C18_Witness ==
    /\ cacheRes.op = "get_cached_domains"
    /\ cacheLast.saved
    /\ cacheLast.intact
    /\ Cardinality(DOMAIN cacheDir) = 2
    /\ cacheRes.deep = {Sub("a"), Sub("b")}
    /\ cacheRes.fofa = {Sub("c")}
    /\ NewestFile(cacheDir).deep_domains = <<Sub("b"), Sub("a")>>
    /\ \E n \in DOMAIN cacheDir : cacheDir[n].deep_domains = <<Sub("c")>>

\* C19: with a newest snapshot that is corrupt or unreadable, has_valid_cache
\* returns false, get_cached_domains returns empty deep and fofa sets,
\* neither raises, and no snapshot file is modified
C19_CorruptIsAMiss ==
    [][(/\ cacheRes'.op \in {"has_valid_cache", "get_cached_domains"}
        /\ DOMAIN cacheDir # {}
        /\ Corrupt(NewestFile(cacheDir))
        /\ (CheckCache \/ ReadCache)) =>
          /\ ~cacheRes'.raised
          /\ ~cacheRes'.valid
          /\ cacheRes'.deep = {}
          /\ cacheRes'.fofa = {}
          /\ cacheDir' = cacheDir]_vars

C19_Witness ==
    /\ cacheRes.op = "get_cached_domains"
    /\ ~cacheRes.raised
    /\ ~cacheCfg.DISABLE_CACHE
    /\ Cardinality(DOMAIN cacheDir) = 2
    /\ NewestFile(cacheDir).kind = "not_utf8"
    /\ \E n \in DOMAIN cacheDir :
          /\ Dated(cacheDir[n])
          /\ cacheNow - cacheDir[n].timestamp <= CACHE_EXPIRE_DAYS * 86400

\* C20: a sweep of clean_expired_cache (auto-clean enabled, deletions
\* permitted) deletes the snapshot files older than the expiry window and
\* those that cannot be parsed, and leaves every parseable snapshot within
\* the window present, its content unchanged
C20_SweepDeletesExactly ==
    [][CleanCacheWith(TRUE, TRUE) =>
          \A n \in DOMAIN cacheDir :
             /\ cacheDir[n].kind \in {"not_json", "not_utf8"} => n \notin DOMAIN cacheDir'
             /\ Dated(cacheDir[n]) =>
                   IF cacheNow - cacheDir[n].timestamp > CACHE_EXPIRE_DAYS * 86400
                   THEN n \notin DOMAIN cacheDir'
                   ELSE n \in DOMAIN cacheDir' /\ cacheDir'[n] = cacheDir[n]]_vars

----------------------------------------------------------------------------
(* DictBuilder and the dictionary file (cacher/dict_builder.py) *)

MaxDomains == 2         \* domains given to process_subdomains
MaxDictLines == 2       \* lines of the dictionary file before the run

\* str.split(sep)
RECURSIVE Split(_, _)
Split(text, sep) ==
    IF \A i \in DOMAIN text : text[i] # sep
    THEN <<text>>
    ELSE LET i == CHOOSE k \in DOMAIN text :
                     text[k] = sep /\ \A j \in 1..(k - 1) : text[j] # sep
         IN  <<SubSeq(text, 1, i - 1)>> \o Split(SubSeq(text, i + 1, Len(text)), sep)

\* _extract_subdomain_prefix, lines 86-94: the prefixes from the i-th part on
RECURSIVE PartPrefixes(_, _)
PartPrefixes(parts, i) ==
    IF i > Len(parts)
    THEN {}
    ELSE (IF parts[i] # <<>> THEN {parts[i]} ELSE {})
         \cup (IF i > 1 THEN {parts[i - 1] \o <<".">> \o parts[i]} ELSE {})
         \cup PartPrefixes(parts, i + 1)

\* _extract_subdomain_prefix
ExtractSubdomainPrefix(domain, target_domain) ==
    IF EndsWith(domain, <<".">> \o target_domain)
    THEN PartPrefixes(Split(SubSeq(domain, 1, Len(domain) - Len(target_domain) - 1),
                            "."), 1)
    ELSE {}

\* the words of the dictionary file, as the text of the file holds them
WordsOnDisk(file) ==
    IF ~file.exists
    THEN {}
    ELSE {Strip(line) : line \in {l \in file.lines : Strip(l) # <<>>}}

\* the domains process_subdomains can be given: "a.t.c", "ab.t.c",
\* "x.ab.t.c", "t.c", "a.b.c"
BuilderDomains ==
    {Sub("a"), <<"a", "b", ".">> \o TARGET, <<"x", ".", "a", "b", ".">> \o TARGET,
     TARGET, <<"a", ".", "b", ".", "c">>}

\* the lines of the dictionary file before the run: "w", "ab", " w "
BuilderLines == {<<"w">>, <<"a", "b">>, <<" ", "w", " ">>}

\* process_subdomains, lines 121-125: new_words > 0
NewWordsAdded_Always(original, updated) == TRUE
NewWordsAdded(original, updated) == Cardinality(updated) - Cardinality(original) > 0

\* DictBuilder.__init__: self.dict_words = self._load_dict_words()
NewDictBuilder ==
    /\ dictPc = "new"
    /\ dictPc' = "ready"
    /\ dictWords' = LoadWords(dictDisk)
    /\ UNCHANGED <<dictDisk, outsideDict>>

\* process_subdomains, with _save_dict_words: the prefixes of the domains
\* join dict_words, and if that added a word the file is written anew from
\* dict_words (a failure to write is logged)
ProcessSubdomains ==
    /\ dictPc = "ready"
    /\ \E domains \in SubsetsUpTo(BuilderDomains, MaxDomains) :
          IF domains = {}
          THEN UNCHANGED <<dictDisk, dictWords>>
          ELSE LET all_prefixes == UNION {ExtractSubdomainPrefix(d, TARGET) : d \in domains}
               IN  /\ dictWords' = dictWords \cup all_prefixes
                   /\ IF NewWordsAdded(dictWords, dictWords')
                      THEN \/ dictDisk' = DictFile(TRUE, TRUE, dictWords')
                           \/ dictDisk' = dictDisk
                      ELSE dictDisk' = dictDisk
    /\ UNCHANGED <<dictPc, outsideDict>>

\* a dictionary file, missing or present, its text readable or not, and no
\* DictBuilder yet
InitDict ==
    /\ fs = EmptyFs
    /\ clock = 0
    /\ cfg = ConfigDefaults
    /\ cacheSnap = NoSnap
    /\ cmpFiles = NoHandler
    /\ cmpResult = NoResult
    /\ AllIdle
    /\ ColIdle
    /\ FofaIdle
    /\ BfIdle
    /\ HistIdle
    /\ RunIdle
    /\ StoreIdle
    /\ dictPc = "new"
    /\ dictDisk \in {DictFile(FALSE, FALSE, {})}
                    \cup {DictFile(TRUE, readable, lines) :
                             readable \in BOOLEAN,
                             lines \in SubsetsUpTo(BuilderLines, MaxDictLines)}
    /\ dictWords = {}
    /\ AliveIdle
    /\ TxtIdle
    /\ SeqIdle
    /\ BoIdle
    /\ ExIdle
    /\ PgIdle
    /\ CaIdle
    /\ CbIdle
    /\ RcIdle

NextDict ==
    \/ NewDictBuilder
    \/ ProcessSubdomains

SpecDict == InitDict /\ [][NextDict]_vars

\* C23: every word in the dictionary file before process_subdomains is in it
\* afterwards
C23_DictionaryAppendOnly ==
    [][ProcessSubdomains => WordsOnDisk(dictDisk) \subseteq WordsOnDisk(dictDisk')]_vars

\* C24: every word process_subdomains adds to the dictionary has at least two
\* characters
C24_NoSingleCharacterWord ==
    [][ProcessSubdomains =>
          \A word \in WordsOnDisk(dictDisk') \ WordsOnDisk(dictDisk) : Len(word) >= 2]_vars

SingleLabel(domain, target_domain) ==
    IF /\ EndsWith(domain, <<".">> \o target_domain)
       /\ Len(domain) > Len(target_domain) + 1
       /\ ~HasChar(SubSeq(domain, 1, Len(domain) - Len(target_domain) - 1), ".")
    THEN {SubSeq(domain, 1, Len(domain) - Len(target_domain) - 1)}
    ELSE {}

\* C34: a word comes only from a domain of the form <prefix>.<target> with a
\* single label as prefix: every word of the builder is a word of the
\* dictionary file or the single label of an observed domain
C34_OnlySingleLabelWords ==
    \A word \in dictWords :
       \/ word \in {Strip(line) : line \in BuilderLines}
       \/ \E domain \in BuilderDomains : word \in SingleLabel(domain, TARGET)

\* C36: in one `all` run every result file that is written carries the
\* timestamp taken at the start of execute_all
C36_OneTimestampPerRun ==
    allPc \notin {"idle", "start"} =>
        \A path \in Paths : fs[path].exists => path[2] = allFiles.deep_file[2]

----------------------------------------------------------------------------
(* AliveChecker (utils/alivecheck.py) *)

MaxAliveDomains == 2    \* domains given to check_and_save
MaxAliveCalls == 2      \* calls of check_and_save on one AliveChecker

\* Config.ALIVE_PROTOCOLS
ALIVE_PROTOCOLS == <<"https", "http">>

\* what session.get can meet: an exception, or a response with a status
NoResponse(exception) == [responded |-> FALSE, exception |-> exception, status |-> 0]
Response(status) == [responded |-> TRUE, exception |-> "", status |-> status]
Responses ==
    {NoResponse(e) : e \in {"ClientError", "TimeoutError", "Exception"}}
    \cup {Response(st) : st \in {100, 404, 599, 600}}

\* is_alive = 100 <= status_code < 600
IsAlive_SuccessOnly(status_code) == 200 <= status_code /\ status_code < 400
IsAlive(status_code) == 100 <= status_code /\ status_code < 600

\* AliveResult, the fields the model keeps
AliveResult(domain, is_alive, status_code, protocol) ==
    [domain |-> domain, is_alive |-> is_alive, status_code |-> status_code,
     protocol |-> protocol]

\* check_domain_alive, the loop from the i-th protocol on: the requests made
\* and the result
RECURSIVE CheckDomainAliveFrom(_, _, _)
CheckDomainAliveFrom(domain, resp, i) ==
    IF i > Len(ALIVE_PROTOCOLS)
    THEN [requests |-> <<>>,
          result |-> AliveResult(domain, FALSE, 0, ALIVE_PROTOCOLS[1])]
    ELSE LET protocol == ALIVE_PROTOCOLS[i]
             rest == CheckDomainAliveFrom(domain, resp, i + 1)
         IN  IF resp[protocol].responded /\ IsAlive(resp[protocol].status)
             THEN [requests |-> <<protocol>>,
                   result |-> AliveResult(domain, TRUE, resp[protocol].status, protocol)]
             ELSE [rest EXCEPT !.requests = <<protocol>> \o @]

\* check_domain_alive
CheckDomainAlive(domain, resp) == CheckDomainAliveFrom(domain, resp, 1)

\* get_alive_domains, get_dead_domains
GetAliveDomains(results) == {r.domain : r \in {x \in results : x.is_alive}}
GetDeadDomains(results) == {r.domain : r \in {x \in results : ~x.is_alive}}

\* check_and_save is called: no domains, and it returns two empty sets;
\* otherwise check_domains_alive sets the counters and the tasks of the
\* batch are created
AliveStart ==
    /\ alivePc = "idle"
    /\ aliveCalls < MaxAliveCalls
    /\ aliveCalls' = aliveCalls + 1
    /\ \E domains \in SubsetsUpTo({Sub("a"), Sub("b")}, MaxAliveDomains) :
          /\ aliveIn' = domains
          /\ aliveResp' = <<>>
          /\ aliveReq' = [d \in domains |-> <<>>]
          /\ aliveResults' = {}
          /\ IF domains = {}
             THEN /\ aliveOut' = [NoAliveOutput EXCEPT !.returned = TRUE]
                  /\ UNCHANGED <<alivePc, aliveCounts>>
             ELSE /\ aliveOut' = NoAliveOutput
                  /\ alivePc' = "checking"
                  /\ aliveCounts' = [total_count |-> Cardinality(domains),
                                     alive_count |-> 0, dead_count |-> 0]
    /\ UNCHANGED outsideAlive

\* one task of check_batch: check_domain_alive for a domain
AliveCheckDomain ==
    /\ alivePc = "checking"
    /\ \E domain \in aliveIn :
          /\ aliveReq[domain] = <<>>
          /\ \E resp \in [{"https", "http"} -> Responses] :
                LET c == CheckDomainAlive(domain, resp)
                IN  /\ aliveResp' = (domain :> resp) @@ aliveResp
                    /\ aliveReq' = [aliveReq EXCEPT ![domain] = c.requests]
                    /\ aliveResults' = aliveResults \cup {c.result}
    /\ UNCHANGED <<alivePc, aliveIn, aliveCounts, aliveOut, aliveCalls, outsideAlive>>

\* the batch is gathered: the counters are updated, the results are saved
\* and cached (a failure is logged), and the two sets are returned
AliveFinish ==
    /\ alivePc = "checking"
    /\ \A domain \in aliveIn : aliveReq[domain] # <<>>
    /\ alivePc' = "idle"
    /\ aliveCounts' =
          [aliveCounts EXCEPT
              !.alive_count = @ + Cardinality({r \in aliveResults : r.is_alive}),
              !.dead_count = @ + Cardinality({r \in aliveResults : ~r.is_alive})]
    /\ \E saved \in BOOLEAN :
          aliveOut' = [returned |-> TRUE, alive |-> GetAliveDomains(aliveResults),
                       dead |-> GetDeadDomains(aliveResults), saved |-> saved]
    /\ UNCHANGED <<aliveIn, aliveResp, aliveReq, aliveResults, aliveCalls, outsideAlive>>

InitAlive ==
    /\ fs = EmptyFs
    /\ clock = 0
    /\ cfg = ConfigDefaults
    /\ cacheSnap = NoSnap
    /\ cmpFiles = NoHandler
    /\ cmpResult = NoResult
    /\ AllIdle
    /\ ColIdle
    /\ FofaIdle
    /\ BfIdle
    /\ HistIdle
    /\ RunIdle
    /\ StoreIdle
    /\ DictIdle
    /\ AliveIdle
    /\ TxtIdle
    /\ SeqIdle
    /\ BoIdle
    /\ ExIdle
    /\ PgIdle
    /\ CaIdle
    /\ CbIdle
    /\ RcIdle

NextAlive ==
    \/ AliveStart
    \/ AliveCheckDomain
    \/ AliveFinish

SpecAlive == InitAlive /\ [][NextAlive]_vars

\* the place in ALIVE_PROTOCOLS of the first protocol that meets a response
\* with a status in 100..599, or 0
FirstAnswering(resp) ==
    IF \E i \in DOMAIN ALIVE_PROTOCOLS :
          /\ resp[ALIVE_PROTOCOLS[i]].responded
          /\ resp[ALIVE_PROTOCOLS[i]].status \in 100..599
    THEN CHOOSE i \in DOMAIN ALIVE_PROTOCOLS :
            /\ resp[ALIVE_PROTOCOLS[i]].responded
            /\ resp[ALIVE_PROTOCOLS[i]].status \in 100..599
            /\ \A j \in 1..(i - 1) :
                  ~(/\ resp[ALIVE_PROTOCOLS[j]].responded
                    /\ resp[ALIVE_PROTOCOLS[j]].status \in 100..599)
    ELSE 0

\* C25: the protocols are tried in order up to the first that meets a
\* response with a status in 100..599; the result is alive with that
\* protocol and status and no later protocol is requested; the result is
\* not alive exactly when no protocol meets such a response
C25_FirstAnsweringProtocol ==
    \A r \in aliveResults :
       LET i == FirstAnswering(aliveResp[r.domain])
       IN  IF i = 0
           THEN /\ ~r.is_alive
                /\ aliveReq[r.domain] = ALIVE_PROTOCOLS
           ELSE /\ r.is_alive
                /\ r.protocol = ALIVE_PROTOCOLS[i]
                /\ r.status_code = aliveResp[r.domain][ALIVE_PROTOCOLS[i]].status
                /\ aliveReq[r.domain] = SubSeq(ALIVE_PROTOCOLS, 1, i)

C25_Witness ==
    \E r \in aliveResults :
       /\ r.is_alive
       /\ r.protocol = "http"
       /\ r.status_code = 404
       /\ aliveResp[r.domain]["https"] = Response(600)
       /\ aliveReq[r.domain] = <<"https", "http">>

\* C26: check_and_save returns an alive set and a dead set that are disjoint
\* and whose union is the set of domains given, and afterwards
\* alive_count + dead_count is the number of domains given
C26_AlivePartition ==
    aliveOut.returned =>
        /\ aliveOut.alive \cap aliveOut.dead = {}
        /\ aliveOut.alive \cup aliveOut.dead = aliveIn
        /\ aliveCounts.alive_count + aliveCounts.dead_count = Cardinality(aliveIn)

----------------------------------------------------------------------------
(* Result files as text: FileResultHandler.handle (handlers/file.py) and
   ComparisonHandler (handlers/comparison.py) *)

MaxTextDomains == 2     \* domains in one written set

\* the characters of the model in code point order, for sorted()
Alphabet == <<"\n", " ", ".", "S", "a", "b", "c", "t">>
CharRank(ch) == CHOOSE i \in DOMAIN Alphabet : Alphabet[i] = ch

\* str < str
RECURSIVE StrLess(_, _)
StrLess(x, y) ==
    IF y = <<>> THEN FALSE
    ELSE IF x = <<>> THEN TRUE
    ELSE IF Head(x) = Head(y) THEN StrLess(Tail(x), Tail(y))
    ELSE CharRank(Head(x)) < CharRank(Head(y))

\* sorted(domains)
RECURSIVE SortedStrs(_)
SortedStrs(S) ==
    IF S = {} THEN <<>>
    ELSE LET least == CHOOSE x \in S : \A y \in S \ {x} : StrLess(x, y)
         IN  <<least>> \o SortedStrs(S \ {least})

\* f.write(f"{domain}\n")
WriteLine_NoNewline(domain) == domain
WriteLine(domain) == domain \o <<"\n">>

\* for domain in sorted(domains): f.write(f"{domain}\n")
RECURSIVE WriteAll(_)
WriteAll(sorted) ==
    IF sorted = <<>> THEN <<>> ELSE WriteLine(Head(sorted)) \o WriteAll(Tail(sorted))
Written(domains) == WriteAll(SortedStrs(domains))

\* str.splitlines(), on the alphabet of the model
SplitLines(content) ==
    LET parts == Split(content, "\n")
    IN  IF parts[Len(parts)] = <<>> THEN SubSeq(parts, 1, Len(parts) - 1) ELSE parts

\* a file on the disk
TextFile(readable, content) == [exists |-> TRUE, readable |-> readable, content |-> content]

\* _read_domains_from_file: the stripped lines that are not blank; a file
\* that does not exist, or whose reading raises, gives set()
ReadDomainsFromText_AnyFile(file) ==
    LET lines == SplitLines(file.content)
    IN  {Strip(lines[i]) : i \in {k \in DOMAIN lines : Strip(lines[k]) # <<>>}}
ReadDomainsFromText(file) ==
    IF ~file.exists \/ ~file.readable
    THEN {}
    ELSE LET lines == SplitLines(file.content)
         IN  {Strip(lines[i]) : i \in {k \in DOMAIN lines : Strip(lines[k]) # <<>>}}

\* open(path, 'w') and the writes: all written, open raised (the file is as
\* it was), or a write raised (the file is left truncated)
WriteOutcomes == {"written", "open_failed", "write_failed"}
AfterWrite(file, domains, outcome) ==
    CASE outcome = "written" -> TextFile(TRUE, Written(domains))
      [] outcome = "open_failed" -> file
      [] outcome = "write_failed" -> TextFile(TRUE, <<>>)

\* valid domain strings
TextDomains == {Sub("a"), Sub("b"), <<"S", ".">> \o TARGET, TARGET}

\* what an input file can hold: written sets, and a padded line with a
\* blank line
InputTexts ==
    {Written(D) : D \in SubsetsUpTo({Sub("a"), Sub("b")}, MaxTextDomains)}
    \cup {<<" ">> \o Sub("a") \o <<" ", "\n", "\n">> \o Sub("b")}
InputFiles ==
    {NoTextFile} \cup {TextFile(r, t) : r \in BOOLEAN, t \in InputTexts}

\* FileResultHandler.handle
TextHandle ==
    /\ txtCall.op = "none"
    /\ \E domains \in SubsetsUpTo(TextDomains, MaxTextDomains), outcome \in WriteOutcomes :
          /\ txtDisk' = [txtDisk EXCEPT !["out"] = AfterWrite(@, domains, outcome)]
          /\ txtCall' = [NoTextCall EXCEPT !.op = "handle", !.domains = domains,
                                           !.written = outcome = "written"]
    /\ UNCHANGED outsideText

\* ComparisonHandler._read_domains_from_file on the file that handle wrote
TextRead ==
    /\ txtCall.op = "handle"
    /\ txtCall' = [txtCall EXCEPT !.op = "read",
                                  !.value = ReadDomainsFromText(txtDisk["out"])]
    /\ UNCHANGED <<txtDisk, outsideText>>

\* ComparisonHandler.compare_domains
TextCompare ==
    /\ txtCall.op = "none"
    /\ LET deep == ReadDomainsFromText(txtDisk["deep"])
           fofa == ReadDomainsFromText(txtDisk["fofa"])
           brute == ReadDomainsFromText(txtDisk["brute"])
           hidden == HiddenDomains(deep, fofa, brute)
           total == TotalDomains(deep, fofa, brute)
       IN  \E h, t \in WriteOutcomes :
              /\ txtDisk' = [txtDisk EXCEPT !["hidden"] = AfterWrite(@, hidden, h),
                                            !["total"] = AfterWrite(@, total, t)]
              /\ txtCall' = [NoTextCall EXCEPT !.op = "compare",
                                               !.hidden = hidden, !.total = total,
                                               !.hidden_written = h = "written",
                                               !.total_written = t = "written"]
    /\ UNCHANGED outsideText

InitText ==
    /\ fs = EmptyFs
    /\ clock = 0
    /\ cfg = ConfigDefaults
    /\ cacheSnap = NoSnap
    /\ cmpFiles = NoHandler
    /\ cmpResult = NoResult
    /\ AllIdle
    /\ ColIdle
    /\ FofaIdle
    /\ BfIdle
    /\ HistIdle
    /\ RunIdle
    /\ StoreIdle
    /\ DictIdle
    /\ AliveIdle
    /\ \E d, f, b \in InputFiles :
          txtDisk = [p \in TextPaths |->
                        CASE p = "deep" -> d [] p = "fofa" -> f [] p = "brute" -> b
                          [] OTHER -> NoTextFile]
    /\ txtCall = NoTextCall
    /\ SeqIdle
    /\ BoIdle
    /\ ExIdle
    /\ PgIdle
    /\ CaIdle
    /\ CbIdle
    /\ RcIdle

NextText ==
    \/ TextHandle
    \/ TextRead
    \/ TextCompare

SpecText == InitText /\ [][NextText]_vars

\* the set an input file stands for: nothing when it is missing or cannot
\* be read, else its lines without the padding, blank lines left out
SourceSet(path) ==
    IF txtDisk[path].exists /\ txtDisk[path].readable
    THEN LET lines == SplitLines(txtDisk[path].content)
         IN  {Strip(lines[i]) : i \in DOMAIN lines} \ {<<>>}
    ELSE {}

\* C27: compare_domains returns hidden and total and does not raise; an
\* input file that is missing or cannot be read counts as the empty set, and
\* the returned sets are the same whether or not the two writes succeed
C27_CompareNeverFails ==
    txtCall.op = "compare" =>
        /\ ~txtCall.raised
        /\ txtCall.hidden =
              (SourceSet("deep") \cup SourceSet("brute")) \ SourceSet("fofa")
        /\ txtCall.total =
              SourceSet("deep") \cup SourceSet("fofa") \cup SourceSet("brute")

C27_Witness ==
    /\ txtCall.op = "compare"
    /\ txtDisk["deep"].exists /\ ~txtDisk["deep"].readable
    /\ txtDisk["deep"].content = Written({Sub("a"), Sub("b")})
    /\ ~txtDisk["fofa"].exists
    /\ txtDisk["brute"].readable
    /\ txtCall.hidden = {Sub("b")}
    /\ ~txtCall.hidden_written
    /\ ~txtCall.total_written

\* C28: a set of valid domain strings that FileResultHandler.handle wrote is
\* the set that _read_domains_from_file reads back from the file
C28_WriteReadRoundTrip ==
    (txtCall.op = "read" /\ txtCall.written) => txtCall.value = txtCall.domains

C28_Witness ==
    /\ txtCall.op = "read"
    /\ txtCall.written
    /\ txtCall.value = {<<"S", ".">> \o TARGET, Sub("a")}
    /\ txtDisk["out"].content = <<"S", ".">> \o TARGET \o <<"\n">> \o Sub("a") \o <<"\n">>

----------------------------------------------------------------------------
(* Repeated `all` runs over one cache: CLI.execute_all (core/cli.py),
   SubdomainCollector.collect and DomainProcessor.process_domains
   (core/core.py).  The result files of a run are those of SpecAll. *)

MaxAllRuns == 3         \* `all` runs in a row
MaxWindows == 2         \* expiry windows that pass

\* the expiry window in seconds
ExpireSeconds == CACHE_EXPIRE_DAYS * 86400

\* the sources a run queries: collect() on a cache miss gathers the passive
\* collectors and, unless disabled, brute-forces; FofaSubdomainCollector.run
\* is called in every run and requests the API when there is a key
SourcesQueried(hit, no_brute, api_key) ==
    (IF hit THEN {} ELSE {"passive"} \cup (IF no_brute THEN {} ELSE {"brute"}))
    \cup (IF api_key # "" THEN {"fofa"} ELSE {})

\* what the sources hold at the time of a run
LiveDeep == {{Sub("a")}, {Sub("b")}}
LiveFofa == {{}, {Sub("c")}}

\* execute_all: collector.run() (cache check, else live collection),
\* fofa_collector.run(), deep_results['fofa'] = fofa_domains, and
\* processor.run(deep, fofa), which saves the snapshot unless the cache is
\* disabled
ExecuteAll ==
    /\ seqCount < MaxAllRuns
    /\ seqCount' = seqCount + 1
    /\ \E no_cache, no_brute \in BOOLEAN, api_key \in {"", "key"},
          P \in LiveDeep, F \in LiveFofa :
          LET c == [ConfigDefaults EXCEPT !.DISABLE_CACHE = no_cache,
                                          !.DISABLE_DICT_BRUTE = no_brute]
              hit == CacheHit(c, seqSnap, seqNow)
              cached == GetCachedDomains(c, seqSnap, seqNow)
              deep == IF hit THEN cached.deep ELSE P
              fofa_domains == IF api_key = "" THEN {} ELSE F
              collected == IF hit THEN seqMade.collected ELSE seqNow
          IN  /\ seqRun' = [ran |-> TRUE, at |-> seqNow, no_cache |-> no_cache,
                            before |-> seqSnap, hit |-> hit, deep |-> deep,
                            fofa |-> fofa_domains,
                            queried |-> SourcesQueried(hit, no_brute, api_key),
                            collected |-> collected]
              /\ seqSnap' = SaveDomainsToCache(c, seqSnap, seqNow, deep, fofa_domains)
              /\ seqMade' = IF no_cache THEN seqMade
                            ELSE [collected |-> collected, full |-> ~hit]
    /\ UNCHANGED <<seqNow, outsideRuns>>

\* the times of the runs: whole expiry windows after the first run, and a
\* second later
RunTimes ==
    UNION {{k * ExpireSeconds, k * ExpireSeconds + 1} : k \in 0..MaxWindows}

\* time passes between two runs
BetweenRuns ==
    /\ seqCount < MaxAllRuns
    /\ \E t \in RunTimes :
          /\ t > seqNow
          /\ seqNow' = t
    /\ UNCHANGED <<seqSnap, seqMade, seqRun, seqCount, outsideRuns>>

InitRuns ==
    /\ fs = EmptyFs
    /\ clock = 0
    /\ cfg = ConfigDefaults
    /\ cacheSnap = NoSnap
    /\ cmpFiles = NoHandler
    /\ cmpResult = NoResult
    /\ AllIdle
    /\ ColIdle
    /\ FofaIdle
    /\ BfIdle
    /\ HistIdle
    /\ RunIdle
    /\ StoreIdle
    /\ DictIdle
    /\ AliveIdle
    /\ TxtIdle
    /\ SeqIdle
    /\ BoIdle
    /\ ExIdle
    /\ PgIdle
    /\ CaIdle
    /\ CbIdle
    /\ RcIdle

NextRuns ==
    \/ ExecuteAll
    \/ BetweenRuns

SpecRuns == InitRuns /\ [][NextRuns]_vars

\* C21: the deep domains that a run takes from the cache were collected from
\* the live sources at most the expiry window before that run, and a
\* snapshot is written only by a run that collected in full
C21_CachedDomainsAreFresh ==
    /\ (seqRun.ran /\ seqRun.hit) => seqRun.at - seqRun.collected <= ExpireSeconds
    /\ seqSnap.exists => seqMade.full

\* C22: a run that finds a valid snapshot, with the cache enabled, queries
\* no source (passive collectors, brute-forcer, FOFA API), and its deep and
\* fofa sets are those of the snapshot
C22_CacheHitQueriesNothing ==
    (/\ seqRun.ran
     /\ ~seqRun.no_cache
     /\ seqRun.before.exists
     /\ seqRun.at - seqRun.before.timestamp <= ExpireSeconds) =>
        /\ seqRun.queried = {}
        /\ seqRun.deep = seqRun.before.deep
        /\ seqRun.fofa = seqRun.before.fofa

----------------------------------------------------------------------------
(* FofaCollector._fetch_page_with_retry: the wait before each attempt
   (collectors/fofa.py, lines 64-117) *)

MaxBackoffPage == 4     \* pages asked for

\* Config.FOFA_PAGE_INTERVAL and Config.FOFA_BACKOFF_FACTOR (0.5)
FOFA_PAGE_INTERVAL == 1
FOFA_BACKOFF_FACTOR == [num |-> 1, den |-> 2]

\* the settings of a collector: the shipped ones, and others
BackoffFactors == {FOFA_BACKOFF_FACTOR, [num |-> 1, den |-> 1], [num |-> 2, den |-> 1]}
BackoffDelays == {1, FOFA_RETRY_DELAY}
BackoffConfigs ==
    [retry_delay : BackoffDelays, backoff_factor : BackoffFactors,
     page_interval : {FOFA_PAGE_INTERVAL}]

\* seconds are counted in units of 1 / (5 * 2^(retry_count - 1)), in which
\* every wait of the loop is a whole number
Units(seconds) == seconds * 5 * 2^(FOFA_RETRY_COUNT - 1)

\* base_wait = self.page_interval * (1 + (page - 1) * 0.2)
BaseWait(settings, page) == (Units(settings.page_interval) * (5 + (page - 1))) \div 5

\* wait_time = base_wait + (self.retry_delay * (self.backoff_factor ** (attempt - 1)))
WaitTime_Retry(settings, page, attempt) ==
    BaseWait(settings, page)
    + (Units(settings.retry_delay) * settings.backoff_factor.num^(attempt - 1))
          \div settings.backoff_factor.den^(attempt - 1)

\* _fetch_page_with_retry is entered for a page
BackoffStart ==
    /\ boPc = "idle"
    /\ \E settings \in BackoffConfigs, page \in 1..MaxBackoffPage :
          /\ boCfg' = settings
          /\ boPage' = page
    /\ boPc' = "running"
    /\ boAttempt' = 0
    /\ boWaits' = <<>>
    /\ UNCHANGED outsideBackoff

\* one turn of `for attempt in range(self.retry_count + 1)`: the wait, the
\* request, and either a result that is returned or one that is retried
BackoffAttempt ==
    /\ boPc = "running"
    /\ boAttempt <= FOFA_RETRY_COUNT
    /\ boWaits' = IF boAttempt > 0
                  THEN Append(boWaits, WaitTime_Retry(boCfg, boPage, boAttempt))
                  ELSE boWaits
    /\ \E retried \in BOOLEAN :
          IF ~retried
          THEN boPc' = "returned" /\ boAttempt' = boAttempt
          ELSE /\ boAttempt' = boAttempt + 1
               /\ boPc' = IF boAttempt = FOFA_RETRY_COUNT THEN "given_up" ELSE "running"
    /\ UNCHANGED <<boCfg, boPage>>
    /\ UNCHANGED outsideBackoff

InitBackoff ==
    /\ fs = EmptyFs
    /\ clock = 0
    /\ cfg = ConfigDefaults
    /\ cacheSnap = NoSnap
    /\ cmpFiles = NoHandler
    /\ cmpResult = NoResult
    /\ AllIdle
    /\ ColIdle
    /\ FofaIdle
    /\ BfIdle
    /\ HistIdle
    /\ RunIdle
    /\ StoreIdle
    /\ DictIdle
    /\ AliveIdle
    /\ TxtIdle
    /\ SeqIdle
    /\ BoIdle
    /\ ExIdle
    /\ PgIdle
    /\ CaIdle
    /\ CbIdle
    /\ RcIdle

NextBackoff == BackoffStart \/ BackoffAttempt
SpecBackoff == InitBackoff /\ [][NextBackoff]_vars

\* C39: for a given page, the wait before a retry, before jitter, is never
\* smaller than the wait before the retry before it
C39_BackoffNeverShrinks ==
    \A i \in 1..(Len(boWaits) - 1) : boWaits[i] <= boWaits[i + 1]

----------------------------------------------------------------------------
(* SmartBruteForcer.check_subdomain (core/bruteforcer.py, lines 93-163) and
   DictBuilder._check_domain_exists (cacher/dict_builder.py, lines 132-150)
   on the same names *)

MaxCandidates == 2      \* candidates looked up

Candidates == {<<"w">>, <<"a", "b">>}

\* what a lookup can do: answer, time out, report that there is no such
\* record, or fail otherwise
LookupOutcomes == {"success", "timeout", "no_such_name", "failure"}

\* check_subdomain: False when no resolver can be created; otherwise one A
\* query, True when it answers, False on DNSError and on any other exception
CheckSubdomain(resolver, a) ==
    IF ~resolver THEN FALSE ELSE a = "success"

\* _check_domain_exists: the A query, and when it raises the CNAME query
CheckDomainExists(a, cname) ==
    IF a = "success" THEN TRUE
    ELSE IF cname = "success" THEN TRUE
    ELSE FALSE

\* the names to look up and what their lookups will do
ExistsStart ==
    /\ exPc = "idle"
    /\ \E words \in SUBSET Candidates \ {{}} :
          /\ Cardinality(words) <= MaxCandidates
          /\ \E dns \in [words -> [a : LookupOutcomes, cname : LookupOutcomes]] :
                exDns' = dns
    /\ exResolver' \in BOOLEAN
    /\ exPc' = "checking"
    /\ UNCHANGED <<exSmart, exDict>>
    /\ UNCHANGED outsideExists

\* SmartBruteForcer.check_subdomain(word)
ExistsCheckSubdomain ==
    /\ exPc = "checking"
    /\ \E word \in DOMAIN exDns \ DOMAIN exSmart :
          exSmart' = (word :> CheckSubdomain(exResolver, exDns[word].a)) @@ exSmart
    /\ UNCHANGED <<exPc, exDns, exResolver, exDict>>
    /\ UNCHANGED outsideExists

\* DictBuilder._check_domain_exists(word + "." + target)
ExistsCheckDomainExists ==
    /\ exPc = "checking"
    /\ \E word \in DOMAIN exDns \ DOMAIN exDict :
          exDict' = (word :> CheckDomainExists(exDns[word].a, exDns[word].cname)) @@ exDict
    /\ UNCHANGED <<exPc, exDns, exResolver, exSmart>>
    /\ UNCHANGED outsideExists

InitExists ==
    /\ fs = EmptyFs
    /\ clock = 0
    /\ cfg = ConfigDefaults
    /\ cacheSnap = NoSnap
    /\ cmpFiles = NoHandler
    /\ cmpResult = NoResult
    /\ AllIdle
    /\ ColIdle
    /\ FofaIdle
    /\ BfIdle
    /\ HistIdle
    /\ RunIdle
    /\ StoreIdle
    /\ DictIdle
    /\ AliveIdle
    /\ TxtIdle
    /\ SeqIdle
    /\ BoIdle
    /\ ExIdle
    /\ PgIdle
    /\ CaIdle
    /\ CbIdle
    /\ RcIdle

NextExists == ExistsStart \/ ExistsCheckSubdomain \/ ExistsCheckDomainExists
SpecExists == InitExists /\ [][NextExists]_vars

\* the A lookup or the CNAME lookup of the candidate answers
Resolves(word) == exDns[word].a = "success" \/ exDns[word].cname = "success"

\* C35: both checks report a candidate as existing exactly when its A lookup
\* or its CNAME lookup succeeds
C35_SameExistenceDecision ==
    /\ \A word \in DOMAIN exSmart : exSmart[word] = Resolves(word)
    /\ \A word \in DOMAIN exDict : exDict[word] = Resolves(word)

----------------------------------------------------------------------------
(* FofaCollector.collect and _get_total_pages, request by request
   (collectors/fofa.py, lines 244-366) *)

MaxServedPages == 3     \* pages of results the API holds

\* Config.FOFA_MAX_CONCURRENT, the limit of the TCPConnector of collect
FOFA_MAX_CONCURRENT == 3

\* the item [host, domain] that page p of the API holds
PageLabels == <<"a", "b", "c", "d", "s", "x">>
PageItems(page) == {<<<<>>, Sub(PageLabels[Min(page, Len(PageLabels))])>>}

\* the JSON of a response of _fetch_page_with_retry for a page: the records
\* of the page, or {'results': []} after a failure
PageResponse(srv, page, ok) ==
    IF ok /\ page <= srv.pages
    THEN [results |-> 1, items |-> PageItems(page), size |-> srv.size]
    ELSE IF ok THEN [results |-> 0, items |-> {}, size |-> srv.size]
    ELSE [results |-> 0, items |-> {}, size |-> 0]

\* a request, as sent
PageRequest(phase, page) == [phase |-> phase, page |-> page]

\* `data = await self._fetch_page_with_retry(session, page)`: collect goes
\* on only when the request it sent is answered
Awaited_NotAwaited(inflight) == TRUE
Awaited(inflight) == inflight = {}

\* collect, lines 287-301: with an API key, _get_total_pages is entered
PagesStart ==
    /\ pgPc = "idle"
    /\ \E pages \in 0..MaxServedPages, max_pages \in 1..MaxMaxPages :
          /\ \E size \in {0, pages * FOFA_PAGE_SIZE, (pages + 1) * FOFA_PAGE_SIZE} :
                pgSrv' = [pages |-> pages, size |-> size]
          /\ pgMaxPages' = max_pages
    /\ pgPc' = "total_pages"
    /\ pgPage' = 1
    /\ UNCHANGED <<pgTotalPages, pgInFlight, pgIssued, pgMerged, pgDomains>>
    /\ UNCHANGED outsidePages

\* _get_total_pages, line 256, and collect, line 316: the request for the
\* current page is sent
PagesRequest ==
    /\ pgPc \in {"total_pages", "loop"}
    /\ Awaited(pgInFlight)
    /\ pgInFlight' = pgInFlight \cup {PageRequest(pgPc, pgPage)}
    /\ pgIssued' = Append(pgIssued, PageRequest(pgPc, pgPage))
    /\ UNCHANGED <<pgPc, pgSrv, pgMaxPages, pgTotalPages, pgPage, pgMerged, pgDomains>>
    /\ UNCHANGED outsidePages

\* the request is answered. _get_total_pages, lines 257-275: the total is
\* computed from the size, and with a size of 0 collect returns. collect,
\* lines 319-357: the domains of the page are merged, and an empty page or
\* the last page ends the loop
PagesResponse ==
    /\ pgPc \in {"total_pages", "loop"}
    /\ PageRequest(pgPc, pgPage) \in pgInFlight
    /\ pgInFlight' = pgInFlight \ {PageRequest(pgPc, pgPage)}
    /\ \E ok \in BOOLEAN :
          LET data == PageResponse(pgSrv, pgPage, ok)
          IN  IF pgPc = "total_pages"
              THEN /\ pgTotalPages' =
                          IF data.size = 0 THEN 0
                          ELSE CappedPages(TotalPages(data.size, FOFA_PAGE_SIZE), pgMaxPages)
                   /\ pgPc' = IF data.size = 0 THEN "done" ELSE "loop"
                   /\ pgPage' = 1
                   /\ UNCHANGED <<pgMerged, pgDomains>>
              ELSE /\ pgDomains' = pgDomains \cup PageDomains(data.items, TARGET)
                   /\ pgMerged' = pgMerged \cup {pgPage}
                   /\ IF data.results = 0 \/ pgPage = pgTotalPages
                      THEN pgPc' = "done" /\ pgPage' = pgPage
                      ELSE pgPc' = "loop" /\ pgPage' = pgPage + 1
                   /\ UNCHANGED pgTotalPages
    /\ UNCHANGED <<pgSrv, pgMaxPages, pgIssued>>
    /\ UNCHANGED outsidePages

InitPages ==
    /\ fs = EmptyFs
    /\ clock = 0
    /\ cfg = ConfigDefaults
    /\ cacheSnap = NoSnap
    /\ cmpFiles = NoHandler
    /\ cmpResult = NoResult
    /\ AllIdle
    /\ ColIdle
    /\ FofaIdle
    /\ BfIdle
    /\ HistIdle
    /\ RunIdle
    /\ StoreIdle
    /\ DictIdle
    /\ AliveIdle
    /\ TxtIdle
    /\ SeqIdle
    /\ BoIdle
    /\ ExIdle
    /\ PgIdle
    /\ CaIdle
    /\ CbIdle
    /\ RcIdle

NextPages == PagesStart \/ PagesRequest \/ PagesResponse
SpecPages == InitPages /\ [][NextPages]_vars

----------------------------------------------------------------------------
(* DomainComparator.check_alive (core/core.py, lines 305-324) and
   AliveHandler.handle_all_domains (handlers/alive.py, lines 91-116) *)

\* normal_domains = total_domains - hidden_domains
NormalDomains_Total(total, hidden) == total
NormalDomains(total, hidden) == total \ hidden

\* the set the handler is checking
CheckedSet == IF caPc \in {"hidden", "hidden_checking"} THEN caHidden ELSE caNormal
SetName == IF caPc \in {"hidden", "hidden_checking"} THEN "hidden" ELSE "normal"

\* check_alive is called with the result of compare_domains; the two sets
\* are taken and handle_all_domains is entered
CheckAliveStart ==
    /\ caPc = "idle"
    /\ \E deep, fofa, brute \in SubsetsUpTo(Domains, MaxSetSize) :
          LET results == [hidden |-> HiddenDomains(deep, fofa, brute),
                          total |-> TotalDomains(deep, fofa, brute)]
          IN  /\ caResults' = results
              /\ caHidden' = results.hidden
              /\ caNormal' = NormalDomains(results.total, results.hidden)
    /\ caPc' = "hidden"
    /\ UNCHANGED <<caProbes, caCompleted>>
    /\ UNCHANGED outsideCheckAlive

\* handle_hidden_domains / handle_normal_domains: check_and_save returns at
\* once for an empty set, otherwise check_domains_alive creates the probes
CheckAliveEnter ==
    /\ caPc \in {"hidden", "normal"}
    /\ caPc' = IF CheckedSet = {}
               THEN (IF caPc = "hidden" THEN "normal" ELSE "done")
               ELSE (IF caPc = "hidden" THEN "hidden_checking" ELSE "normal_checking")
    /\ UNCHANGED <<caResults, caHidden, caNormal, caProbes, caCompleted>>
    /\ UNCHANGED outsideCheckAlive

\* check_batch: the probe of a domain of the set starts
CheckAliveProbe ==
    /\ caPc \in {"hidden_checking", "normal_checking"}
    /\ \E domain \in CheckedSet :
          /\ <<SetName, domain>> \notin caCompleted
          /\ caProbes[domain] = Cardinality({c \in caCompleted : c[2] = domain})
          /\ caProbes' = [caProbes EXCEPT ![domain] = @ + 1]
    /\ UNCHANGED <<caPc, caResults, caHidden, caNormal, caCompleted>>
    /\ UNCHANGED outsideCheckAlive

\* a probe that was started completes
CheckAliveProbed ==
    /\ caPc \in {"hidden_checking", "normal_checking"}
    /\ \E domain \in CheckedSet :
          /\ <<SetName, domain>> \notin caCompleted
          /\ caProbes[domain] > Cardinality({c \in caCompleted : c[2] = domain})
          /\ caCompleted' = caCompleted \cup {<<SetName, domain>>}
    /\ UNCHANGED <<caPc, caResults, caHidden, caNormal, caProbes>>
    /\ UNCHANGED outsideCheckAlive

\* the probes of the set are gathered and check_and_save returns
CheckAliveGathered ==
    /\ caPc \in {"hidden_checking", "normal_checking"}
    /\ \A domain \in CheckedSet : <<SetName, domain>> \in caCompleted
    /\ caPc' = IF caPc = "hidden_checking" THEN "normal" ELSE "done"
    /\ UNCHANGED <<caResults, caHidden, caNormal, caProbes, caCompleted>>
    /\ UNCHANGED outsideCheckAlive

InitCheckAlive ==
    /\ fs = EmptyFs
    /\ clock = 0
    /\ cfg = ConfigDefaults
    /\ cacheSnap = NoSnap
    /\ cmpFiles = NoHandler
    /\ cmpResult = NoResult
    /\ AllIdle
    /\ ColIdle
    /\ FofaIdle
    /\ BfIdle
    /\ HistIdle
    /\ RunIdle
    /\ StoreIdle
    /\ DictIdle
    /\ AliveIdle
    /\ TxtIdle
    /\ SeqIdle
    /\ BoIdle
    /\ ExIdle
    /\ PgIdle
    /\ CaIdle
    /\ CbIdle
    /\ RcIdle

NextCheckAlive ==
    \/ CheckAliveStart
    \/ CheckAliveEnter
    \/ CheckAliveProbe
    \/ CheckAliveProbed
    \/ CheckAliveGathered

SpecCheckAlive == InitCheckAlive /\ [][NextCheckAlive]_vars

\* C38: check_alive probes every domain of `total` exactly once: the hidden
\* set and the normal set are disjoint, their union is total, no domain is
\* ever probed twice, at the end every domain of total was probed, and a
\* probe of the normal set starts only when every probe of the hidden set
\* has completed
C38_EveryDomainProbedOnce ==
    [][/\ caPc' # "idle" =>
             /\ caHidden' \cap caNormal' = {}
             /\ caHidden' \cup caNormal' = caResults'.total
       /\ \A domain \in Domains : caProbes'[domain] <= 1
       /\ caPc' = "done" =>
             \A domain \in Domains :
                caProbes'[domain] = IF domain \in caResults'.total THEN 1 ELSE 0
       /\ \A domain \in caNormal :
             (caPc = "normal_checking" /\ caProbes'[domain] > caProbes[domain]) =>
                 \A hidden \in caHidden : <<"hidden", hidden>> \in caCompleted]_vars

C38_Witness ==
    /\ caPc = "done"
    /\ caHidden = {Sub("a")}
    /\ caNormal = {Sub("b")}
    /\ caProbes[Sub("a")] = 1
    /\ caProbes[Sub("b")] = 1

----------------------------------------------------------------------------
(* AliveChecker.check_domains_alive and check_batch, by the number of
   probes (utils/alivecheck.py, lines 163-282) *)

MaxBatchDomains == 105  \* domains given to one call

\* Config.ALIVE_BATCH_SIZE, the default of batch_size, and the two limits of
\* `min(max(batch_size, 20), 50)`
ALIVE_BATCH_SIZE == 50
BATCH_FLOOR == 20
BATCH_CEILING == 50

\* the batch sizes a caller passes, and the sizes of the sets it gives
BatchSizes == {10, BATCH_FLOOR, ALIVE_BATCH_SIZE, 60}
DomainCounts == {0, 15, 55, MaxBatchDomains}

\* optimized_batch_size = min(max(batch_size, 20), 50)
OptimizedBatchSize(batch_size) == Min(Max(batch_size, BATCH_FLOOR), BATCH_CEILING)

\* check_domains_alive(domains, batch_size) is called
BatchesStart ==
    /\ cbPc = "idle"
    /\ cbBatchSize' \in BatchSizes
    /\ cbLeft' \in DomainCounts
    /\ cbPc' = "loop"
    /\ UNCHANGED <<cbInFlight, cbBatches>>
    /\ UNCHANGED outsideBatches

\* one turn of the loop up to the gather of check_batch: the next
\* optimized_batch_size domains, or those that are left, get a probe each
BatchBegin ==
    /\ cbPc = "loop"
    /\ cbLeft > 0
    /\ LET batch == Min(OptimizedBatchSize(cbBatchSize), cbLeft)
       IN  /\ cbInFlight' = cbInFlight + batch
           /\ cbLeft' = cbLeft - batch
    /\ cbBatches' = cbBatches + 1
    /\ cbPc' = "gather"
    /\ UNCHANGED cbBatchSize
    /\ UNCHANGED outsideBatches

\* a probe of the batch completes
BatchProbed ==
    /\ cbPc = "gather"
    /\ cbInFlight > 0
    /\ cbInFlight' = cbInFlight - 1
    /\ UNCHANGED <<cbPc, cbBatchSize, cbLeft, cbBatches>>
    /\ UNCHANGED outsideBatches

\* asyncio.gather returns when every probe has completed; the counters are
\* updated and the loop goes on after the pause
BatchGathered ==
    /\ cbPc = "gather"
    /\ cbInFlight = 0
    /\ cbPc' = "loop"
    /\ UNCHANGED <<cbBatchSize, cbLeft, cbInFlight, cbBatches>>
    /\ UNCHANGED outsideBatches

\* no domain is left: all_results is returned
BatchesReturn ==
    /\ cbPc = "loop"
    /\ cbLeft = 0
    /\ cbPc' = "done"
    /\ UNCHANGED <<cbBatchSize, cbLeft, cbInFlight, cbBatches>>
    /\ UNCHANGED outsideBatches

InitBatches ==
    /\ fs = EmptyFs
    /\ clock = 0
    /\ cfg = ConfigDefaults
    /\ cacheSnap = NoSnap
    /\ cmpFiles = NoHandler
    /\ cmpResult = NoResult
    /\ AllIdle
    /\ ColIdle
    /\ FofaIdle
    /\ BfIdle
    /\ HistIdle
    /\ RunIdle
    /\ StoreIdle
    /\ DictIdle
    /\ AliveIdle
    /\ TxtIdle
    /\ SeqIdle
    /\ BoIdle
    /\ ExIdle
    /\ PgIdle
    /\ CaIdle
    /\ CbIdle
    /\ RcIdle

NextBatches ==
    \/ BatchesStart
    \/ BatchBegin
    \/ BatchProbed
    \/ BatchGathered
    \/ BatchesReturn

SpecBatches == InitBatches /\ [][NextBatches]_vars

\* C32: never more than batch_size probes, batch_size as the caller passed
\* it, are in flight, and the probes of a batch start only when every probe
\* of the batch before has completed
C32_AtMostBatchSizeInFlight ==
    [][/\ cbPc' # "idle" => cbInFlight' <= cbBatchSize'
       /\ cbBatches' # cbBatches => cbInFlight = 0]_vars

----------------------------------------------------------------------------
(* The sweep a cache hit starts in a thread (core/core.py, lines 88-97;
   CacheManager.clean_expired_cache) against save_domains_to_cache of the
   same run, step by step *)

\* the snapshots in the directory when the run starts: a fresh one, written
\* at StartTime, and possibly an expired one and one that is no JSON
FreshName == StartTime
ExpiredName == StartTime - MaxAge - 1
BrokenName == StartTime - 1
RaceDirs ==
    {[n \in {FreshName} \cup extra |->
         CASE n = FreshName -> Snapshot(StartTime, <<Sub("a")>>, <<>>, StartTime)
           [] n = ExpiredName -> Snapshot(ExpiredName, <<Sub("b")>>, <<>>, ExpiredName)
           [] OTHER -> Truncated(StartTime)]
     : extra \in SUBSET {ExpiredName, BrokenName}}

\* collect, lines 88-97: the cache is valid, and the sweep is handed to a thread
RaceCacheHit ==
    /\ rcSweep.pc = "none"
    /\ HasValidCacheFile([DISABLE_CACHE |-> FALSE], rcDir, rcNow).valid
    /\ rcSweep' = [rcSweep EXCEPT !.pc = "created"]
    /\ UNCHANGED <<rcDir, rcNow, rcSave>>
    /\ UNCHANGED outsideRace

\* clean_expired_cache, line 149: glob lists the files that exist now
RaceGlob ==
    /\ rcSweep.pc = "created"
    /\ rcSweep' = [rcSweep EXCEPT !.pc = "scan", !.files = DOMAIN rcDir]
    /\ UNCHANGED <<rcDir, rcNow, rcSave>>
    /\ UNCHANGED outsideRace

\* clean_expired_cache, lines 154-167: the next file of the list is opened
\* and parsed, and its timestamp (or its mtime) is taken
RaceRead ==
    /\ rcSweep.pc = "scan"
    /\ \E name \in rcSweep.files :
          rcSweep' =
             IF name \notin DOMAIN rcDir
             THEN [rcSweep EXCEPT !.pc = "read", !.name = name, !.outcome = "IOError"]
             ELSE LET file == rcDir[name]
                  IN  [rcSweep EXCEPT
                          !.pc = "read", !.name = name, !.outcome = ReadOutcome(file),
                          !.timestamp = IF TimestampOf(file) = 0 THEN file.mtime
                                        ELSE TimestampOf(file)]
    /\ UNCHANGED <<rcDir, rcNow, rcSave>>
    /\ UNCHANGED outsideRace

\* clean_expired_cache, lines 169-183: an expired file is removed; a file
\* whose reading raised what the inner handler catches is removed; any other
\* exception ends the sweep; os.remove may raise OSError
RaceRemove ==
    /\ rcSweep.pc = "read"
    /\ LET rest == [rcSweep EXCEPT !.pc = "scan", !.files = @ \ {rcSweep.name}]
           removes == IF rcSweep.outcome = "ok"
                      THEN Expired(rcNow, rcSweep.timestamp)
                      ELSE CleanCatches(rcSweep.outcome)
       IN  /\ rcSweep' = IF rcSweep.outcome # "ok" /\ ~CleanCatches(rcSweep.outcome)
                         THEN [rcSweep EXCEPT !.pc = "done"]
                         ELSE rest
           /\ \E removable \in BOOLEAN :
                 rcDir' = IF removes /\ rcSweep.name \in DOMAIN rcDir
                          THEN Remove(removable, rcDir, rcSweep.name)
                          ELSE rcDir
    /\ UNCHANGED <<rcNow, rcSave>>
    /\ UNCHANGED outsideRace

\* clean_expired_cache, line 185: every file of the list was looked at
RaceSweepEnd ==
    /\ rcSweep.pc = "scan"
    /\ rcSweep.files = {}
    /\ rcSweep' = [rcSweep EXCEPT !.pc = "done"]
    /\ UNCHANGED <<rcDir, rcNow, rcSave>>
    /\ UNCHANGED outsideRace

\* save_domains_to_cache, lines 238-248, later in the run: open(cache_path,
\* 'w') creates the file, which is empty until json.dump has written
RaceSaveOpen ==
    /\ rcSweep.pc # "none"
    /\ rcSave.pc = "idle"
    /\ rcSave' = [pc |-> "open", path |-> GetCachePath(rcNow)]
    /\ rcDir' = PutFile(rcDir, GetCachePath(rcNow), Truncated(rcNow))
    /\ UNCHANGED <<rcNow, rcSweep>>
    /\ UNCHANGED outsideRace

\* save_domains_to_cache, lines 248-249: json.dump writes the object and the
\* file is closed; a file removed meanwhile stays removed
RaceSaveWrite ==
    /\ rcSave.pc = "open"
    /\ rcSave' = [rcSave EXCEPT !.pc = "written"]
    /\ rcDir' = IF rcSave.path \in DOMAIN rcDir
                THEN PutFile(rcDir, rcSave.path,
                             Snapshot(rcNow, <<Sub("c")>>, <<>>, rcNow))
                ELSE rcDir
    /\ UNCHANGED <<rcNow, rcSweep>>
    /\ UNCHANGED outsideRace

InitRace ==
    /\ fs = EmptyFs
    /\ clock = 0
    /\ cfg = ConfigDefaults
    /\ cacheSnap = NoSnap
    /\ cmpFiles = NoHandler
    /\ cmpResult = NoResult
    /\ AllIdle
    /\ ColIdle
    /\ FofaIdle
    /\ BfIdle
    /\ HistIdle
    /\ RunIdle
    /\ StoreIdle
    /\ DictIdle
    /\ AliveIdle
    /\ TxtIdle
    /\ SeqIdle
    /\ BoIdle
    /\ ExIdle
    /\ PgIdle
    /\ CaIdle
    /\ CbIdle
    /\ rcDir \in RaceDirs
    /\ rcNow \in {StartTime + 1, StartTime + MaxAge}
    /\ rcSweep = NoSweep
    /\ rcSave = NoSave

NextRace ==
    \/ RaceCacheHit
    \/ RaceGlob
    \/ RaceRead
    \/ RaceRemove
    \/ RaceSweepEnd
    \/ RaceSaveOpen
    \/ RaceSaveWrite

SpecRace == InitRace /\ [][NextRace]_vars

\* C37: the snapshot that save_domains_to_cache is writing or has written in
\* the run is never removed by the sweep the cache hit of the run started
C37_SweepSparesFreshSnapshot ==
    rcSave.pc \in {"open", "written"} => rcSave.path \in DOMAIN rcDir

====
